---- MODULE Spec2Model ----
(***************************************************************************)
(* Model of the in-process ledger simulator (MockBlockchain) and of the    *)
(* identity-verification contract built on it                              *)
(* (IdentityVerificationContract).                                         *)
(*                                                                         *)
(* Every public method of the two classes is a pure operator from a state  *)
(* record to a result record [s, exc, ...]: s is the state the method      *)
(* leaves behind (also when it raises: the statements executed before the  *)
(* raise are kept), exc is the exception it raised ("None" when it         *)
(* returned).  An action applies one method to the current state.          *)
(*                                                                         *)
(* Modelling conventions                                                   *)
(*  - a Python dict is a function whose DOMAIN is the set of its keys;     *)
(*  - sha256 is modelled as an injective tuple of its inputs;              *)
(*  - uuid4 is modelled by the counter tx_count (never repeats);           *)
(*  - int(time.time()) is the variable now, advanced by Tick;              *)
(*  - the receipt's gas_used (a function of the printed length of the      *)
(*    data) is not represented.                                            *)
(***************************************************************************)
EXTENDS Integers, Sequences, FiniteSets, TLC

VARIABLES
    identity_records,      \* owner -> identity record
    verification_records,  \* owner -> (verification type key -> status)
    access_grants,         \* owner -> (third party -> grant record)
    zkp_verifications,     \* sequence of ZKP verification records
    chain,                 \* sequence of blocks, chain[1] is the genesis block
    pending_transactions,  \* sequence of transactions not yet mined
    accounts,              \* address -> balance
    nonces,                \* address -> nonce
    events,                \* MockBlockchain.events: events recorded at mining
    contract_events,       \* MockContract.events of the identity contract
    contracts,             \* MockBlockchain.contracts: address -> name
    tx_count,              \* number of Transaction objects created so far
    mine_count,            \* number of mine_block calls made so far
    blockchain_file,       \* blockchain_state.json as json.load reads it
    contract_file,         \* identity_contract_state.json, likewise
    disk,                  \* blockchain_state.json and its .tmp, as inodes
    savers,                \* the background threads running save_state
    threads,               \* the foreground threads inside a ledger method
    now,                   \* the clock, int(time.time())
    calls,                 \* number of calls made to the contract so far
    last                   \* the last call: method, arguments, exception

vars == <<identity_records, verification_records, access_grants,
          zkp_verifications, chain, pending_transactions, accounts, nonces,
          events, contract_events, contracts, tx_count, mine_count,
          blockchain_file, contract_file, disk, savers, threads, now,
          calls, last>>

(* The program's state without the clock and the record of the calls *)
contractMaps == <<identity_records, verification_records, access_grants,
                  zkp_verifications>>
ledgerState == <<chain, pending_transactions, accounts, nonces, events,
                 contract_events, contracts, tx_count, mine_count>>
(* The two files of the storage directory *)
files == <<blockchain_file, contract_file, disk>>
(* The threads of the process other than the one making the calls *)
others == <<savers, threads>>

-----------------------------------------------------------------------------
(* Bounds of the model *)
MaxCalls == 3       \* number of calls made to the contract
MaxChanges == 1     \* number of changes made while the save workers run
MaxTicks == 2       \* number of times the clock advances
StartTime == 1      \* the clock value at construction

(* Program constants *)
MIN_GAS == 21000                \* MockBlockchain.create_transaction
INITIAL_BALANCE == 2000000000   \* 100 ETH in wei, saturated to 32 bits
HOUR == 60 * 60                  \* the grant lifetime of the scenario

NoneInt == -1       \* Python None where an int is expected
NoneAddr == "None"  \* Python None where an address is expected

ZERO_HASH == <<0>>  \* "0" * 64, the previous hash of the genesis block

CONTRACT_ADDRESS == "0xIdentityVerification"

DefaultAccounts ==
    { "0x0000000000000000000000000000000000000000",
      "0x0000000000000000000000000000000000000001",
      "0x0000000000000000000000000000000000000002",
      "0x0000000000000000000000000000000000000003",
      "0x0000000000000000000000000000000000000004",
      "0x0000000000000000000000000000000000000005",
      "0x0000000000000000000000000000000000000006",
      "0x0000000000000000000000000000000000000007",
      "0x0000000000000000000000000000000000000008",
      "0x0000000000000000000000000000000000000009" }

DEPLOYER == "0x0000000000000000000000000000000000000000"

(* Inputs: two addresses the ledger does not know and two funded ones.   *)
(* Each owner deals with one third party.                                 *)
FUNDED_OWNER == "0x0000000000000000000000000000000000000001"
FUNDED_VERIFIER == "0x0000000000000000000000000000000000000002"
Addr == { "alice", "bob", FUNDED_OWNER, FUNDED_VERIFIER }
Owners == { "alice", FUNDED_OWNER }
Pairs == { <<"alice", "bob">>, <<FUNDED_OWNER, FUNDED_VERIFIER>> }
VerificationTypes == 0..1
Statuses == 1..2
DataTypeLists == { <<"facial">>, <<"document">> }
DataTypes == { "facial", "document" }
ProofHashes == { "0xabc" }
ExpiryChoices(t) == { t + HOUR }
TICK == HOUR   \* the clock advances in steps of an hour

-----------------------------------------------------------------------------
(* dict helpers *)
Put(f, k, v) == [x \in (DOMAIN f) \cup {k} |-> IF x = k THEN v ELSE f[x]]
Get(f, k, d) == IF k \in DOMAIN f THEN f[k] ELSE d
EmptyDict == [x \in {} |-> 0]

(* the key a verification type has in verification_records[owner] *)
IntKey(t) == <<"int", t>>

-----------------------------------------------------------------------------
(* Block *)
Block_calculate_hash(block_number, timestamp, previous_hash, ntx) ==
    <<block_number, timestamp, previous_hash, ntx>>

Block_init(block_number, previous_hash, t) ==
    [ block_number |-> block_number,
      timestamp |-> t,
      transactions |-> <<>>,
      previous_hash |-> previous_hash,
      hash |-> Block_calculate_hash(block_number, t, previous_hash, 0) ]

Block_add_transaction(b, txd) ==
    [ b EXCEPT !.transactions = Append(@, txd),
               !.hash = Block_calculate_hash(b.block_number, b.timestamp,
                                             b.previous_hash,
                                             Len(b.transactions) + 1) ]

(* Transaction: __init__ followed by execute() *)
Transaction_init(from_address, to_address, data, function_name, t, n) ==
    [ hash |-> n,
      from |-> from_address,
      to |-> to_address,
      data |-> data,
      function_name |-> function_name,
      timestamp |-> t,
      receipt |-> [ transaction_hash |-> n,
                    from |-> from_address,
                    to |-> to_address,
                    block_number |-> NoneInt,
                    timestamp |-> t,
                    status |-> 1,
                    function_name |-> function_name ] ]

(* Event, with the log index emit_event gives it *)
Event_init(name, args, transaction_hash, block_number, address, log_index, t) ==
    [ name |-> name,
      args |-> args,
      transaction_hash |-> transaction_hash,
      block_number |-> block_number,
      log_index |-> log_index,
      address |-> address,
      timestamp |-> t ]

-----------------------------------------------------------------------------
(* The state as one record, the argument and result of the methods *)
St ==
    [ identity_records |-> identity_records,
      verification_records |-> verification_records,
      access_grants |-> access_grants,
      zkp_verifications |-> zkp_verifications,
      chain |-> chain,
      pending_transactions |-> pending_transactions,
      accounts |-> accounts,
      nonces |-> nonces,
      events |-> events,
      contract_events |-> contract_events,
      contracts |-> contracts,
      tx_count |-> tx_count,
      mine_count |-> mine_count,
      now |-> now ]

emit_event_log_index_is_block_number(s, event_name, args, transaction_hash, block_number) ==
    Event_init(event_name, args, transaction_hash, block_number,
               CONTRACT_ADDRESS, block_number, s.now)

(* MockContract.emit_event on the identity contract *)
emit_event(s, event_name, args, transaction_hash, block_number) ==
    Event_init(event_name, args, transaction_hash, block_number,
               CONTRACT_ADDRESS, Len(s.contract_events), s.now)

create_transaction_nonce_before_check(s, from_address, to_address, function_name, data) ==
    LET s1 == [ s EXCEPT !.nonces = Put(@, from_address,
                                        Get(s.nonces, from_address, 0) + 1) ]
    IN IF Get(s.accounts, from_address, 0) < MIN_GAS
       THEN [ s |-> s1, exc |-> "InsufficientBalance", hash |-> NoneInt ]
       ELSE LET n == s.tx_count + 1
                tx == Transaction_init(from_address, to_address, data,
                                       function_name, s.now, n)
            IN [ s |-> [ s1 EXCEPT
                           !.tx_count = n,
                           !.pending_transactions = Append(@, tx) ],
                 exc |-> "None",
                 hash |-> n ]

(* MockBlockchain.create_transaction *)
create_transaction(s, from_address, to_address, function_name, data) ==
    IF Get(s.accounts, from_address, 0) < MIN_GAS
    THEN [ s |-> s, exc |-> "InsufficientBalance", hash |-> NoneInt ]
    ELSE LET n == s.tx_count + 1
             tx == Transaction_init(from_address, to_address, data,
                                    function_name, s.now, n)
         IN [ s |-> [ s EXCEPT
                        !.tx_count = n,
                        !.nonces = Put(@, from_address,
                                       Get(s.nonces, from_address, 0) + 1),
                        !.pending_transactions = Append(@, tx) ],
              exc |-> "None",
              hash |-> n ]

(* MockBlockchain.mine_block: the loop over the pending transactions *)
RECURSIVE mine_loop(_, _, _, _, _)
mine_loop(txs, new_block, evs, cevs, cs) ==
    IF txs = <<>>
    THEN [ block |-> new_block, events |-> evs, contract_events |-> cevs ]
    ELSE LET tx == Head(txs)
             txd == [ tx EXCEPT !.receipt.block_number = new_block.block_number ]
             b == Block_add_transaction(new_block, txd)
         IN IF tx.to \in DOMAIN cs
            THEN LET ev == Event_init(tx.function_name \o "Event", tx.data,
                                      tx.hash, new_block.block_number,
                                      CONTRACT_ADDRESS, Len(cevs),
                                      new_block.timestamp)
                 IN mine_loop(Tail(txs), b, Append(evs, ev), Append(cevs, ev),
                              cs)
            ELSE mine_loop(Tail(txs), b, evs, cevs, cs)

mine_block_keeps_pending(s) ==
    LET last_block == s.chain[Len(s.chain)]
        new_block == Block_init(last_block.block_number + 1, last_block.hash,
                                s.now)
        r == mine_loop(s.pending_transactions, new_block, s.events,
                       s.contract_events, s.contracts)
    IN [ s EXCEPT !.chain = Append(@, r.block),
                  !.events = r.events,
                  !.contract_events = r.contract_events,
                  !.mine_count = @ + 1 ]

mine_block_stale_previous_hash(s) ==
    LET last_block == s.chain[Len(s.chain)]
        new_block == Block_init(last_block.block_number + 1,
                                last_block.previous_hash, s.now)
        r == mine_loop(s.pending_transactions, new_block, s.events,
                       s.contract_events, s.contracts)
    IN [ s EXCEPT !.chain = Append(@, r.block),
                  !.events = r.events,
                  !.contract_events = r.contract_events,
                  !.pending_transactions = <<>>,
                  !.mine_count = @ + 1 ]

mine_block_events_not_logged(s) ==
    LET last_block == s.chain[Len(s.chain)]
        new_block == Block_init(last_block.block_number + 1, last_block.hash,
                                s.now)
        r == mine_loop(s.pending_transactions, new_block, s.events,
                       s.contract_events, s.contracts)
    IN [ s EXCEPT !.chain = Append(@, r.block),
                  !.events = r.events,
                  !.pending_transactions = <<>>,
                  !.mine_count = @ + 1 ]

mine_block(s) ==
    LET last_block == s.chain[Len(s.chain)]
        new_block == Block_init(last_block.block_number + 1, last_block.hash,
                                s.now)
        r == mine_loop(s.pending_transactions, new_block, s.events,
                       s.contract_events, s.contracts)
    IN [ s EXCEPT !.chain = Append(@, r.block),
                  !.events = r.events,
                  !.contract_events = r.contract_events,
                  !.pending_transactions = <<>>,
                  !.mine_count = @ + 1 ]

(* MockBlockchain.get_transaction_receipt: the search over the blocks in  *)
(* chain order and over each block's transactions in list order           *)
NoneDict == [ none |-> TRUE ]     \* Python None where a dict is expected

ReceiptOf_block_number_of_creation(block, tx_dict) ==
    [ transaction_hash |-> tx_dict.receipt.transaction_hash,
      from |-> tx_dict.receipt.from,
      to |-> tx_dict.receipt.to,
      block_number |-> NoneInt,
      timestamp |-> tx_dict.receipt.timestamp,
      status |-> tx_dict.receipt.status,
      function_name |-> tx_dict.receipt.function_name,
      block_hash |-> block.hash ]

ReceiptOf(block, tx_dict) ==
    [ transaction_hash |-> tx_dict.receipt.transaction_hash,
      from |-> tx_dict.receipt.from,
      to |-> tx_dict.receipt.to,
      block_number |-> tx_dict.receipt.block_number,
      timestamp |-> tx_dict.receipt.timestamp,
      status |-> tx_dict.receipt.status,
      function_name |-> tx_dict.receipt.function_name,
      block_hash |-> block.hash ]

RECURSIVE receipt_search(_, _, _, _)
receipt_search(ch, i, j, tx_hash) ==
    IF i > Len(ch)
    THEN NoneDict
    ELSE IF j > Len(ch[i].transactions)
         THEN receipt_search(ch, i + 1, 1, tx_hash)
         ELSE IF ch[i].transactions[j].hash = tx_hash
              THEN ReceiptOf(ch[i], ch[i].transactions[j])
              ELSE receipt_search(ch, i, j + 1, tx_hash)

get_transaction_receipt_latest_block_only(s, tx_hash) ==
    receipt_search(s.chain, Len(s.chain), 1, tx_hash)

get_transaction_receipt(s, tx_hash) ==
    receipt_search(s.chain, 1, 1, tx_hash)

(* MockContract.get_past_events on the identity contract, as            *)
(* IdentityVerificationContract.get_past_events calls it; to_block is      *)
(* NoneInt when omitted, filters is the empty dict when omitted            *)
event_matches_exclusive(event, event_name, from_block, to_block, filters) ==
    /\ event.name = event_name
    /\ ~(event.block_number < from_block)
    /\ ~(to_block # NoneInt /\ event.block_number >= to_block)
    /\ \A key \in DOMAIN filters :
          ~(key \notin DOMAIN event.args \/ event.args[key] # filters[key])

event_matches(event, event_name, from_block, to_block, filters) ==
    /\ event.name = event_name
    /\ ~(event.block_number < from_block)
    /\ ~(to_block # NoneInt /\ event.block_number > to_block)
    /\ \A key \in DOMAIN filters :
          ~(key \notin DOMAIN event.args \/ event.args[key] # filters[key])

RECURSIVE past_events_loop(_, _, _, _, _, _)
past_events_loop(evs, matching_events, event_name, from_block, to_block, filters) ==
    IF evs = <<>>
    THEN matching_events
    ELSE past_events_loop(Tail(evs),
             IF event_matches(Head(evs), event_name, from_block, to_block,
                              filters)
             THEN Append(matching_events, Head(evs))
             ELSE matching_events,
             event_name, from_block, to_block, filters)

get_past_events(s, event_name, from_block, to_block, filters) ==
    past_events_loop(s.contract_events, <<>>, event_name, from_block,
                     to_block, filters)

(* MockBlockchain.get_logs: to_block is NoneInt and address is NoneAddr   *)
(* when omitted; the loop runs over the ledger's own list self.events     *)
RECURSIVE logs_loop(_, _, _, _, _)
logs_loop(evs, matching_logs, from_block, to_block, address) ==
    IF evs = <<>>
    THEN matching_logs
    ELSE LET event == Head(evs)
             skip == \/ event.block_number < from_block
                     \/ event.block_number > to_block
                     \/ address # NoneAddr /\ event.address # address
         IN logs_loop(Tail(evs),
                      IF skip THEN matching_logs
                              ELSE Append(matching_logs, event),
                      from_block, to_block, address)

get_logs(s, from_block, to_block, address) ==
    LET to == IF to_block = NoneInt
              THEN s.chain[Len(s.chain)].block_number
              ELSE to_block
    IN logs_loop(s.events, <<>>, from_block, to, address)

(* IdentityVerificationContract._emit_event *)
contract_emit_event(s, event_name, args, transaction_hash) ==
    LET block_number == s.chain[Len(s.chain)].block_number
    IN [ s EXCEPT !.contract_events =
            Append(@, emit_event(s, event_name, args, transaction_hash,
                                 block_number)) ]

(* the common tail of the contract's operations: create the transaction,   *)
(* mine the block, emit the domain event                                   *)
transact_mine_emit(s, from_address, function_name, data, event_name, args) ==
    LET c == create_transaction(s, from_address, CONTRACT_ADDRESS,
                                function_name, data)
    IN IF c.exc # "None"
       THEN [ s |-> c.s, exc |-> c.exc ]
       ELSE [ s |-> contract_emit_event(mine_block(c.s), event_name, args,
                                        c.hash),
              exc |-> "None" ]

-----------------------------------------------------------------------------
(* IdentityVerificationContract *)

Ok(s) == [ s |-> s, exc |-> "None" ]
Raise(s, e) == [ s |-> s, exc |-> e ]

(* variant: an existing record is replaced instead of being refused *)
create_identity_no_duplicate_check(s, owner_address, from_address) ==
    LET s1 == [ s EXCEPT !.identity_records =
                   Put(@, owner_address,
                       [ created_at |-> s.now,
                         verification_types |-> EmptyDict,
                         third_party_access |-> EmptyDict ]) ]
    IN transact_mine_emit(s1, from_address, "createIdentity",
                          [ owner |-> owner_address ],
                          "IdentityCreated",
                          [ owner |-> owner_address ])

create_identity(s, owner_address, from_address) ==
    IF owner_address \in DOMAIN s.identity_records
    THEN Raise(s, "DuplicateIdentity")
    ELSE LET s1 == [ s EXCEPT !.identity_records =
                        Put(@, owner_address,
                            [ created_at |-> s.now,
                              verification_types |-> EmptyDict,
                              third_party_access |-> EmptyDict ]) ]
         IN transact_mine_emit(s1, from_address, "createIdentity",
                               [ owner |-> owner_address ],
                               "IdentityCreated",
                               [ owner |-> owner_address ])

(* variant: the status is written without the identity being created *)
update_verification_no_identity(s, owner_address, verification_type, status, from_address) ==
    LET old == Get(s.verification_records, owner_address, EmptyDict)
        s1 == [ s EXCEPT !.verification_records =
                  Put(@, owner_address,
                      Put(old, IntKey(verification_type), status)) ]
    IN transact_mine_emit(s1, from_address, "updateVerification",
                          [ owner |-> owner_address,
                            verificationType |-> verification_type,
                            status |-> status ],
                          "VerificationUpdated",
                          [ owner |-> owner_address,
                            verificationType |-> verification_type,
                            status |-> status ])

update_verification(s, owner_address, verification_type, status, from_address) ==
    LET r0 == IF owner_address \notin DOMAIN s.identity_records
              THEN create_identity(s, owner_address, from_address)
              ELSE Ok(s)
    IN IF r0.exc # "None"
       THEN r0
       ELSE LET old == Get(r0.s.verification_records, owner_address, EmptyDict)
                s1 == [ r0.s EXCEPT !.verification_records =
                          Put(@, owner_address,
                              Put(old, IntKey(verification_type), status)) ]
            IN transact_mine_emit(s1, from_address, "updateVerification",
                                  [ owner |-> owner_address,
                                    verificationType |-> verification_type,
                                    status |-> status ],
                                  "VerificationUpdated",
                                  [ owner |-> owner_address,
                                    verificationType |-> verification_type,
                                    status |-> status ])

get_verification_status(s, owner_address, verification_type) ==
    IF \/ owner_address \notin DOMAIN s.verification_records
       \/ IntKey(verification_type)
             \notin DOMAIN s.verification_records[owner_address]
    THEN 0
    ELSE s.verification_records[owner_address][IntKey(verification_type)]

(* variant: a second grant adds its data types to those already granted *)
grant_access_merge(s, owner_address, third_party_address, expiry_timestamp, data_types, from_address) ==
    IF from_address # owner_address
    THEN Raise(s, "Unauthorized")
    ELSE
    LET r0 == IF owner_address \notin DOMAIN s.identity_records
              THEN create_identity(s, owner_address, from_address)
              ELSE Ok(s)
    IN IF r0.exc # "None"
       THEN r0
       ELSE LET old == Get(r0.s.access_grants, owner_address, EmptyDict)
                before == IF third_party_address \in DOMAIN old
                          THEN old[third_party_address].data_types
                          ELSE <<>>
                s1 == [ r0.s EXCEPT !.access_grants =
                          Put(@, owner_address,
                              Put(old, third_party_address,
                                  [ expiry_timestamp |-> expiry_timestamp,
                                    data_types |-> before \o data_types,
                                    granted_at |-> s.now,
                                    revoked |-> FALSE ])) ]
            IN transact_mine_emit(s1, from_address, "grantAccess",
                                  [ thirdParty |-> third_party_address,
                                    expiryTimestamp |-> expiry_timestamp,
                                    dataTypes |-> data_types ],
                                  "AccessGranted",
                                  [ user |-> owner_address,
                                    thirdParty |-> third_party_address,
                                    expiryTimestamp |-> expiry_timestamp ])

grant_access(s, owner_address, third_party_address, expiry_timestamp, data_types, from_address) ==
    IF from_address # owner_address
    THEN Raise(s, "Unauthorized")
    ELSE
    LET r0 == IF owner_address \notin DOMAIN s.identity_records
              THEN create_identity(s, owner_address, from_address)
              ELSE Ok(s)
    IN IF r0.exc # "None"
       THEN r0
       ELSE LET old == Get(r0.s.access_grants, owner_address, EmptyDict)
                s1 == [ r0.s EXCEPT !.access_grants =
                          Put(@, owner_address,
                              Put(old, third_party_address,
                                  [ expiry_timestamp |-> expiry_timestamp,
                                    data_types |-> data_types,
                                    granted_at |-> s.now,
                                    revoked |-> FALSE ])) ]
            IN transact_mine_emit(s1, from_address, "grantAccess",
                                  [ thirdParty |-> third_party_address,
                                    expiryTimestamp |-> expiry_timestamp,
                                    dataTypes |-> data_types ],
                                  "AccessGranted",
                                  [ user |-> owner_address,
                                    thirdParty |-> third_party_address,
                                    expiryTimestamp |-> expiry_timestamp ])

HasGrant(s, owner_address, third_party_address) ==
    /\ owner_address \in DOMAIN s.access_grants
    /\ third_party_address \in DOMAIN s.access_grants[owner_address]

(* variant: the record gets its revoked_at stamp but the flag is not set *)
revoke_access_flag_not_set(s, owner_address, third_party_address, from_address) ==
    IF from_address # owner_address
    THEN Raise(s, "Unauthorized")
    ELSE IF ~HasGrant(s, owner_address, third_party_address)
    THEN Raise(s, "NotFound")
    ELSE LET g == s.access_grants[owner_address][third_party_address]
             g1 == Put(g, "revoked_at", s.now)
             s1 == [ s EXCEPT !.access_grants[owner_address] =
                        Put(@, third_party_address, g1) ]
         IN transact_mine_emit(s1, from_address, "revokeAccess",
                               [ thirdParty |-> third_party_address ],
                               "AccessRevoked",
                               [ user |-> owner_address,
                                 thirdParty |-> third_party_address ])

(* variant: the caller is not compared with the owner *)
revoke_access_any_caller(s, owner_address, third_party_address, from_address) ==
    IF ~HasGrant(s, owner_address, third_party_address)
    THEN Raise(s, "NotFound")
    ELSE LET g == s.access_grants[owner_address][third_party_address]
             g1 == Put(Put(g, "revoked", TRUE), "revoked_at", s.now)
             s1 == [ s EXCEPT !.access_grants[owner_address] =
                        Put(@, third_party_address, g1) ]
         IN transact_mine_emit(s1, from_address, "revokeAccess",
                               [ thirdParty |-> third_party_address ],
                               "AccessRevoked",
                               [ user |-> owner_address,
                                 thirdParty |-> third_party_address ])

(* variant: the flag is flipped, so that a second revoke clears it *)
revoke_access_toggle(s, owner_address, third_party_address, from_address) ==
    IF from_address # owner_address
    THEN Raise(s, "Unauthorized")
    ELSE IF ~HasGrant(s, owner_address, third_party_address)
    THEN Raise(s, "NotFound")
    ELSE LET g == s.access_grants[owner_address][third_party_address]
             g1 == Put(Put(g, "revoked", ~g.revoked), "revoked_at", s.now)
             s1 == [ s EXCEPT !.access_grants[owner_address] =
                        Put(@, third_party_address, g1) ]
         IN transact_mine_emit(s1, from_address, "revokeAccess",
                               [ thirdParty |-> third_party_address ],
                               "AccessRevoked",
                               [ user |-> owner_address,
                                 thirdParty |-> third_party_address ])

(* variant: the owner's dict of grants is created before the lookup, as    *)
(* access_grants.setdefault(owner, {}) would                               *)
revoke_access_setdefault(s, owner_address, third_party_address, from_address) ==
    IF from_address # owner_address
    THEN Raise(s, "Unauthorized")
    ELSE LET s0 == [ s EXCEPT !.access_grants =
                        Put(@, owner_address,
                            Get(s.access_grants, owner_address, EmptyDict)) ]
         IN IF ~HasGrant(s0, owner_address, third_party_address)
            THEN Raise(s0, "NotFound")
            ELSE LET g == s0.access_grants[owner_address][third_party_address]
                     g1 == Put(Put(g, "revoked", TRUE), "revoked_at", s.now)
                     s1 == [ s0 EXCEPT !.access_grants[owner_address] =
                                Put(@, third_party_address, g1) ]
                 IN transact_mine_emit(s1, from_address, "revokeAccess",
                                       [ thirdParty |-> third_party_address ],
                                       "AccessRevoked",
                                       [ user |-> owner_address,
                                         thirdParty |-> third_party_address ])

(* variant: the record of the pair is deleted *)
revoke_access_delete(s, owner_address, third_party_address, from_address) ==
    IF from_address # owner_address
    THEN Raise(s, "Unauthorized")
    ELSE IF ~HasGrant(s, owner_address, third_party_address)
    THEN Raise(s, "NotFound")
    ELSE LET g == s.access_grants[owner_address]
             s1 == [ s EXCEPT !.access_grants[owner_address] =
                        [ k \in DOMAIN g \ {third_party_address} |-> g[k] ] ]
         IN transact_mine_emit(s1, from_address, "revokeAccess",
                               [ thirdParty |-> third_party_address ],
                               "AccessRevoked",
                               [ user |-> owner_address,
                                 thirdParty |-> third_party_address ])

revoke_access(s, owner_address, third_party_address, from_address) ==
    IF from_address # owner_address
    THEN Raise(s, "Unauthorized")
    ELSE IF ~HasGrant(s, owner_address, third_party_address)
    THEN Raise(s, "NotFound")
    ELSE LET g == s.access_grants[owner_address][third_party_address]
             g1 == Put(Put(g, "revoked", TRUE), "revoked_at", s.now)
             s1 == [ s EXCEPT !.access_grants[owner_address] =
                        Put(@, third_party_address, g1) ]
         IN transact_mine_emit(s1, from_address, "revokeAccess",
                               [ thirdParty |-> third_party_address ],
                               "AccessRevoked",
                               [ user |-> owner_address,
                                 thirdParty |-> third_party_address ])

(* variant: the expiry of the grant is not looked at *)
check_access_no_expiry(s, third_party_address, owner_address) ==
    IF ~HasGrant(s, owner_address, third_party_address)
    THEN FALSE
    ELSE ~s.access_grants[owner_address][third_party_address].revoked

check_access(s, third_party_address, owner_address) ==
    IF ~HasGrant(s, owner_address, third_party_address)
    THEN FALSE
    ELSE LET access == s.access_grants[owner_address][third_party_address]
         IN IF access.revoked
            THEN FALSE
            ELSE IF access.expiry_timestamp < s.now
            THEN FALSE
            ELSE TRUE

(* variant: any grant record authorises the verifier, also a revoked or   *)
(* expired one                                                            *)
record_zkp_verification_any_grant(s, owner_address, proof_hash, data_type, from_address) ==
    IF ~HasGrant(s, owner_address, from_address)
    THEN Raise(s, "Unauthorized")
    ELSE LET verification == [ user |-> owner_address,
                               verifier |-> from_address,
                               proof_hash |-> proof_hash,
                               data_type |-> data_type,
                               timestamp |-> s.now ]
             s1 == [ s EXCEPT !.zkp_verifications = Append(@, verification) ]
         IN transact_mine_emit(s1, from_address, "recordZKProofVerification",
                               [ user |-> owner_address,
                                 proofHash |-> proof_hash,
                                 dataType |-> data_type ],
                               "ZKProofVerified",
                               [ user |-> owner_address,
                                 verifier |-> from_address,
                                 dataType |-> data_type ])

record_zkp_verification_keeps_latest(s, owner_address, proof_hash, data_type, from_address) ==
    IF ~check_access(s, from_address, owner_address)
    THEN Raise(s, "Unauthorized")
    ELSE LET verification == [ user |-> owner_address,
                               verifier |-> from_address,
                               proof_hash |-> proof_hash,
                               data_type |-> data_type,
                               timestamp |-> s.now ]
             s1 == [ s EXCEPT !.zkp_verifications = << verification >> ]
         IN transact_mine_emit(s1, from_address, "recordZKProofVerification",
                               [ user |-> owner_address,
                                 proofHash |-> proof_hash,
                                 dataType |-> data_type ],
                               "ZKProofVerified",
                               [ user |-> owner_address,
                                 verifier |-> from_address,
                                 dataType |-> data_type ])

record_zkp_verification(s, owner_address, proof_hash, data_type, from_address) ==
    IF ~check_access(s, from_address, owner_address)
    THEN Raise(s, "Unauthorized")
    ELSE LET verification == [ user |-> owner_address,
                               verifier |-> from_address,
                               proof_hash |-> proof_hash,
                               data_type |-> data_type,
                               timestamp |-> s.now ]
             s1 == [ s EXCEPT !.zkp_verifications = Append(@, verification) ]
         IN transact_mine_emit(s1, from_address, "recordZKProofVerification",
                               [ user |-> owner_address,
                                 proofHash |-> proof_hash,
                                 dataType |-> data_type ],
                               "ZKProofVerified",
                               [ user |-> owner_address,
                                 verifier |-> from_address,
                                 dataType |-> data_type ])

-----------------------------------------------------------------------------
(* Construction *)

(* MockBlockchain.__init__ with no state file to load *)
MockBlockchain_init(t) ==
    [ identity_records |-> EmptyDict,
      verification_records |-> EmptyDict,
      access_grants |-> EmptyDict,
      zkp_verifications |-> <<>>,
      chain |-> << Block_init(0, ZERO_HASH, t) >>,
      pending_transactions |-> <<>>,
      accounts |-> [ a \in DefaultAccounts |-> INITIAL_BALANCE ],
      nonces |-> [ a \in DefaultAccounts |-> 0 ],
      events |-> <<>>,
      contract_events |-> <<>>,
      contracts |-> EmptyDict,
      tx_count |-> 0,
      mine_count |-> 0,
      now |-> t ]

(* MockBlockchain.deploy_contract, called by the contract's constructor *)
deploy_contract(s, name, from_address) ==
    LET n == s.tx_count + 1
        tx == Transaction_init(from_address, NoneAddr,
                               [ contract_name |-> name ], "constructor",
                               s.now, n)
    IN mine_block([ s EXCEPT !.contracts = Put(@, CONTRACT_ADDRESS, name),
                             !.tx_count = n,
                             !.pending_transactions = Append(@, tx) ])

(* IdentityVerificationContract.__init__ on a fresh ledger *)
Constructed == deploy_contract(MockBlockchain_init(StartTime),
                               "IdentityVerification", DEPLOYER)

-----------------------------------------------------------------------------
(* Persistence: storage.py and the save_state / _load_state methods.  A    *)
(* file's content is what json.load returns for what json.dump wrote.  Of  *)
(* the values saved, the keys are str and the values are str, int, bool,   *)
(* None, list and dict, which JSON gives back as they were, with one       *)
(* exception: the keys of verification_records[owner] are int, and JSON    *)
(* object keys are strings.                                                *)

(* the key "0" that json.load returns for the int key 0 json.dump wrote *)
StrKey(t) == <<"str", t>>

(* json.dump then json.load of one owner's dict of statuses: every key is  *)
(* written as a string; where the dict holds the int key and (loaded       *)
(* earlier) its string, the int key was inserted later, is written later   *)
(* and is the one json.load keeps                                          *)
json_statuses(d) ==
    LET types == { k[2] : k \in DOMAIN d }
    IN [ k \in { StrKey(vt) : vt \in types } |->
           IF IntKey(k[2]) \in DOMAIN d THEN d[IntKey(k[2])] ELSE d[k] ]

(* MockBlockchain.to_dict *)
to_dict(s) ==
    [ blocks |-> s.chain,
      pending_transactions |-> s.pending_transactions,
      contracts |-> [ a \in DOMAIN s.contracts |->
                        [ address |-> a, name |-> s.contracts[a] ] ],
      accounts |-> s.accounts,
      nonces |-> s.nonces ]

(* BlockchainStorage.save_blockchain_state: the file it leaves *)
save_blockchain_state(state, t) ==
    [ metadata |-> [ timestamp |-> t, version |-> "1.0" ],
      blocks |-> state.blocks,
      accounts |-> state.accounts,
      nonces |-> state.nonces,
      contracts |-> state.contracts ]

(* BlockchainStorage.save_contract_state: the file it leaves *)
save_contract_state(state, t) ==
    [ metadata |-> [ timestamp |-> t, version |-> "1.0" ],
      identity_records |-> state.identity_records,
      verification_records |->
          [ o \in DOMAIN state.verification_records |->
              json_statuses(state.verification_records[o]) ],
      access_grants |-> state.access_grants,
      zkp_verifications |-> state.zkp_verifications ]

(* MockBlockchain.save_state *)
MockBlockchain_save_state(s) == save_blockchain_state(to_dict(s), s.now)

(* IdentityVerificationContract.save_state *)
Contract_save_state(s) ==
    save_contract_state([ identity_records |-> s.identity_records,
                          verification_records |-> s.verification_records,
                          access_grants |-> s.access_grants,
                          zkp_verifications |-> s.zkp_verifications ],
                        s.now)

(* the Block that _load_state rebuilds from a saved block *)
Block_from_dict(block_data) ==
    [ block_number |-> block_data.block_number,
      timestamp |-> block_data.timestamp,
      transactions |-> block_data.transactions,
      previous_hash |-> block_data.previous_hash,
      hash |-> block_data.hash ]

(* a file whose bytes json.load cannot decode: empty, or cut short *)
Undecodable == [ undecodable |-> TRUE ]

(* BlockchainStorage.load_blockchain_state and load_contract_state: None   *)
(* when the file is absent and when json.load raises                       *)
load_blockchain_state(file) ==
    IF file = NoneDict \/ file = Undecodable THEN NoneDict ELSE file

load_contract_state(file) ==
    IF file = NoneDict \/ file = Undecodable THEN NoneDict ELSE file

(* Python's truth value of what a loader returned: None and {} are false *)
Truthy(state) == state # NoneDict /\ DOMAIN state # {}

(* MockBlockchain._load_state: the chain is emptied and rebuilt from the   *)
(* "blocks" of the state, an absent key counting as no blocks              *)
MockBlockchain_load_state(s, state) ==
    IF ~Truthy(state)
    THEN s
    ELSE [ s EXCEPT !.chain = IF "blocks" \in DOMAIN state
                              THEN [ i \in 1..Len(state.blocks) |->
                                       Block_from_dict(state.blocks[i]) ]
                              ELSE <<>>,
                    !.accounts = Get(state, "accounts", s.accounts),
                    !.nonces = Get(state, "nonces", s.nonces) ]

(* IdentityVerificationContract._load_state *)
Contract_load_state(s, state) ==
    IF ~Truthy(state)
    THEN s
    ELSE [ s EXCEPT
             !.identity_records = Get(state, "identity_records", EmptyDict),
             !.verification_records =
                 Get(state, "verification_records", EmptyDict),
             !.access_grants = Get(state, "access_grants", EmptyDict),
             !.zkp_verifications = Get(state, "zkp_verifications", <<>>) ]

(* a new process on the same storage directory: MockBlockchain() and then  *)
(* IdentityVerificationContract(), each loading its file, the second       *)
(* deploying the contract anew; what the files do not hold starts empty.   *)
(* The counters of the transactions created and the blocks mined go on.    *)
(* Deploying on an empty chain raises, and the process has no contract.    *)
restart(s, blockchain_state, contract_state) ==
    LET b0 == [ MockBlockchain_init(s.now) EXCEPT
                  !.tx_count = s.tx_count, !.mine_count = s.mine_count ]
        b1 == MockBlockchain_load_state(b0, blockchain_state)
        c1 == Contract_load_state(b1, contract_state)
    IN IF c1.chain = <<>>
       THEN Raise(c1, "IndexError")    \* mine_block: self.chain[-1]
       ELSE Ok(deploy_contract(c1, "IdentityVerification", DEPLOYER))

-----------------------------------------------------------------------------
(* The storage directory as the operating system keeps it: inodes, and the *)
(* two names blockchain_state.json.tmp and blockchain_state.json bound to  *)
(* an inode or to none (0).  An inode holds no bytes (Undecodable) from    *)
(* its creation or truncation by open(.., 'w') until the writer has        *)
(* written and closed it.                                                  *)
EmptyDisk == [ inodes |-> <<>>, tmp |-> 0, target |-> 0 ]

(* what blockchain_state.json holds *)
ReadTarget(d) == IF d.target = 0 THEN NoneDict ELSE d.inodes[d.target]

(* The threads that run MockBlockchain.save_state: the auto-save worker    *)
(* and the thread mine_block starts                                        *)
Savers == { "timer", "on_write" }
IdleSaver == [ pc |-> "idle", state |-> NoneDict, fd |-> 0,
               result |-> "none", started |-> 0 ]

(* The foreground threads that call the ledger's methods *)
Threads == { 1, 2 }
IdleThread == [ pc |-> "idle", last_block |-> NoneDict,
                new_block |-> NoneDict ]

NoCall == [ op |-> "none", args |-> <<>>, exc |-> "None" ]

Init ==
    /\ identity_records = Constructed.identity_records
    /\ verification_records = Constructed.verification_records
    /\ access_grants = Constructed.access_grants
    /\ zkp_verifications = Constructed.zkp_verifications
    /\ chain = Constructed.chain
    /\ pending_transactions = Constructed.pending_transactions
    /\ accounts = Constructed.accounts
    /\ nonces = Constructed.nonces
    /\ events = Constructed.events
    /\ contract_events = Constructed.contract_events
    /\ contracts = Constructed.contracts
    /\ tx_count = Constructed.tx_count
    /\ mine_count = Constructed.mine_count
    /\ blockchain_file = NoneDict
    /\ contract_file = NoneDict
    /\ disk = EmptyDisk
    /\ savers = [ w \in Savers |-> IdleSaver ]
    /\ threads = [ th \in Threads |-> IdleThread ]
    /\ now = StartTime
    /\ calls = 0
    /\ last = NoCall

(* the state a method left behind becomes the state of the program *)
Commit(s) ==
    /\ identity_records' = s.identity_records
    /\ verification_records' = s.verification_records
    /\ access_grants' = s.access_grants
    /\ zkp_verifications' = s.zkp_verifications
    /\ chain' = s.chain
    /\ pending_transactions' = s.pending_transactions
    /\ accounts' = s.accounts
    /\ nonces' = s.nonces
    /\ events' = s.events
    /\ contract_events' = s.contract_events
    /\ contracts' = s.contracts
    /\ tx_count' = s.tx_count
    /\ mine_count' = s.mine_count
    /\ now' = s.now

(* the contract's methods exist once its constructor has deployed it *)
CanCall == calls < MaxCalls /\ CONTRACT_ADDRESS \in DOMAIN contracts

(* one call: the state the method left behind becomes the program's state *)
Do(op, args, r) ==
    /\ Commit(r.s)
    /\ UNCHANGED <<files, others>>
    /\ calls' = calls + 1
    /\ last' = [ op |-> op, args |-> args, exc |-> r.exc ]

CreateIdentity ==
    /\ CanCall
    /\ \E owner \in Owners, from \in Addr :
          /\ from \in { owner, FUNDED_VERIFIER }
          /\ Do("createIdentity",
                [ owner_address |-> owner, from_address |-> from ],
                create_identity(St, owner, from))

UpdateVerification ==
    /\ CanCall
    /\ \E owner \in Owners, vt \in VerificationTypes, st \in Statuses :
          Do("updateVerification",
             [ owner_address |-> owner, verification_type |-> vt,
               status |-> st, from_address |-> owner ],
             update_verification(St, owner, vt, st, owner))

GrantAccess ==
    /\ CanCall
    /\ \E p \in Pairs, e \in ExpiryChoices(now), dts \in DataTypeLists,
          from \in Addr :
          /\ from \in {p[1], p[2]}
          /\ Do("grantAccess",
                [ owner_address |-> p[1], third_party_address |-> p[2],
                  expiry_timestamp |-> e, data_types |-> dts,
                  from_address |-> from ],
                grant_access(St, p[1], p[2], e, dts, from))

RevokeAccess ==
    /\ CanCall
    /\ \E p \in Pairs, from \in Addr :
          /\ from \in {p[1], p[2]}
          /\ Do("revokeAccess",
                [ owner_address |-> p[1], third_party_address |-> p[2],
                  from_address |-> from ],
                revoke_access(St, p[1], p[2], from))

RecordZkpVerification ==
    /\ CanCall
    /\ \E p \in Pairs, ph \in ProofHashes, dt \in DataTypes :
          Do("recordZkpVerification",
             [ owner_address |-> p[1], proof_hash |-> ph, data_type |-> dt,
               from_address |-> p[2] ],
             record_zkp_verification(St, p[1], ph, dt, p[2]))

(* time passes between two calls *)
Tick ==
    /\ now < StartTime + MaxTicks * TICK
    /\ now' = now + TICK
    /\ UNCHANGED <<contractMaps, ledgerState, files, others, calls, last>>

Next ==
    \/ CreateIdentity
    \/ UpdateVerification
    \/ GrantAccess
    \/ RevokeAccess
    \/ RecordZkpVerification
    \/ Tick

Spec == Init /\ [][Next]_vars

-----------------------------------------------------------------------------
(* The ledger used directly: MockBlockchain's own methods are called next  *)
(* to the contract's, starting from a ledger that has just been            *)
(* constructed and on which the contract is not yet deployed.              *)

Fresh == MockBlockchain_init(StartTime)

InitLedger ==
    /\ identity_records = Fresh.identity_records
    /\ verification_records = Fresh.verification_records
    /\ access_grants = Fresh.access_grants
    /\ zkp_verifications = Fresh.zkp_verifications
    /\ chain = Fresh.chain
    /\ pending_transactions = Fresh.pending_transactions
    /\ accounts = Fresh.accounts
    /\ nonces = Fresh.nonces
    /\ events = Fresh.events
    /\ contract_events = Fresh.contract_events
    /\ contracts = Fresh.contracts
    /\ tx_count = Fresh.tx_count
    /\ mine_count = Fresh.mine_count
    /\ blockchain_file = NoneDict
    /\ contract_file = NoneDict
    /\ disk = EmptyDisk
    /\ savers = [ w \in Savers |-> IdleSaver ]
    /\ threads = [ th \in Threads |-> IdleThread ]
    /\ now = StartTime
    /\ calls = 0
    /\ last = NoCall

(* senders, receivers, function names and payloads of direct transactions *)
Senders == { "alice", FUNDED_OWNER }
Receivers == { CONTRACT_ADDRESS, "bob" }
TxData == [ amount |-> 1 ]

CreateTransaction ==
    /\ calls < MaxCalls
    /\ \E from \in Senders, to \in Receivers :
          Do("createTransaction",
             [ from_address |-> from, to_address |-> to ],
             create_transaction(St, from, to, "transfer", TxData))

MineBlock ==
    /\ calls < MaxCalls
    /\ Do("mineBlock", <<>>, Ok(mine_block(St)))

(* IdentityVerificationContract.__init__: the contract is deployed once *)
DeployContract ==
    /\ calls < MaxCalls
    /\ CONTRACT_ADDRESS \notin DOMAIN contracts
    /\ Do("deployContract",
          [ name |-> "IdentityVerification", from_address |-> DEPLOYER ],
          Ok(deploy_contract(St, "IdentityVerification", DEPLOYER)))

NextLedger ==
    \/ CreateTransaction
    \/ MineBlock
    \/ DeployContract
    \/ CreateIdentity
    \/ UpdateVerification
    \/ GrantAccess
    \/ RevokeAccess
    \/ RecordZkpVerification
    \/ Tick

SpecLedger == InitLedger /\ [][NextLedger]_vars

-----------------------------------------------------------------------------
(* The contract with its state saved to the storage directory and the      *)
(* process restarted on it.                                                *)

SaveLedger ==
    /\ CanCall
    /\ blockchain_file' = MockBlockchain_save_state(St)
    /\ calls' = calls + 1
    /\ last' = [ op |-> "saveLedger", args |-> <<>>, exc |-> "None" ]
    /\ UNCHANGED <<contractMaps, ledgerState, contract_file, disk, others,
                   now>>

SaveContract ==
    /\ CanCall
    /\ contract_file' = Contract_save_state(St)
    /\ calls' = calls + 1
    /\ last' = [ op |-> "saveContract", args |-> <<>>, exc |-> "None" ]
    /\ UNCHANGED <<contractMaps, ledgerState, blockchain_file, disk, others,
                   now>>

Restart ==
    /\ calls < MaxCalls
    /\ Do("restart", <<>>,
          restart(St, load_blockchain_state(blockchain_file),
                  load_contract_state(contract_file)))

NextPersist ==
    \/ CreateIdentity
    \/ UpdateVerification
    \/ GrantAccess
    \/ RevokeAccess
    \/ RecordZkpVerification
    \/ SaveLedger
    \/ SaveContract
    \/ Restart

SpecPersist == Init /\ [][NextPersist]_vars

-----------------------------------------------------------------------------
(* The process constructed on a storage directory that holds files it did  *)
(* not write: no file, a file that cannot be decoded, a file that decodes  *)
(* to an empty object, a file that decodes to an object without the keys   *)
(* of a snapshot.                                                          *)

MetadataOnly == [ metadata |-> [ version |-> "1.0" ] ]
BlockchainFiles == { NoneDict, Undecodable, EmptyDict, MetadataOnly }
ContractFiles == { NoneDict, Undecodable, MetadataOnly }

Started(bf, cf) ==
    restart(Fresh, load_blockchain_state(bf), load_contract_state(cf))

InitLoad ==
    \E bf \in BlockchainFiles, cf \in ContractFiles :
        /\ blockchain_file = bf
        /\ contract_file = cf
        /\ disk = EmptyDisk
        /\ savers = [ w \in Savers |-> IdleSaver ]
        /\ threads = [ th \in Threads |-> IdleThread ]
        /\ identity_records = Started(bf, cf).s.identity_records
        /\ verification_records = Started(bf, cf).s.verification_records
        /\ access_grants = Started(bf, cf).s.access_grants
        /\ zkp_verifications = Started(bf, cf).s.zkp_verifications
        /\ chain = Started(bf, cf).s.chain
        /\ pending_transactions = Started(bf, cf).s.pending_transactions
        /\ accounts = Started(bf, cf).s.accounts
        /\ nonces = Started(bf, cf).s.nonces
        /\ events = Started(bf, cf).s.events
        /\ contract_events = Started(bf, cf).s.contract_events
        /\ contracts = Started(bf, cf).s.contracts
        /\ tx_count = Started(bf, cf).s.tx_count
        /\ mine_count = Started(bf, cf).s.mine_count
        /\ now = StartTime
        /\ calls = 0
        /\ last = [ op |-> "restart", args |-> <<>>,
                    exc |-> Started(bf, cf).exc ]

SpecLoad == InitLoad /\ [][NextPersist]_vars

-----------------------------------------------------------------------------
(* The ledger with auto-save enabled: save_state runs in background        *)
(* threads, the auto-save worker's and the one every mine_block starts,    *)
(* while the foreground goes on; the process can die at any step and be    *)
(* started again on the same storage directory.  A step of a saver is one  *)
(* call of the operating system made by save_blockchain_state.             *)

(* the in-memory state after save_state has returned True (ok) or False:   *)
(* the exception of a failed save is caught and logged                     *)
save_state_returned_rolls_back(s, ok) ==
    IF ok THEN s ELSE [ s EXCEPT !.pending_transactions = <<>>,
                                 !.chain = SubSeq(@, 1, 1) ]

save_state_returned(s, ok) == s

(* file i of disk d has a name, or a saver of svs holds it open *)
InUseIn(d, svs, i) ==
    \/ i \in { d.tmp, d.target }
    \/ \E w \in DOMAIN svs : svs[w].pc = "write" /\ svs[w].fd = i

(* a file with no name that no thread holds open is deleted *)
Collect(d, svs) ==
    [ d EXCEPT !.inodes = [ i \in 1..Len(d.inodes) |->
                              IF InUseIn(d, svs, i)
                              THEN d.inodes[i]
                              ELSE Undecodable ] ]

(* the locals of a save that has returned are gone *)
Returned(sv) ==
    IF sv.pc = "idle"
    THEN [ sv EXCEPT !.state = NoneDict, !.fd = 0 ]
    ELSE sv

(* a step of saver w that leaves the disk as d and the saver as sv *)
SaverStep(w, d, sv) ==
    /\ disk' = Collect(d, [ savers EXCEPT ![w] = Returned(sv) ])
    /\ blockchain_file' = ReadTarget(d)
    /\ savers' = [ savers EXCEPT ![w] = Returned(sv) ]
    /\ Commit(IF sv.pc = "idle"
              THEN save_state_returned(St, sv.result = "True")
              ELSE St)
    /\ calls' = IF savers[w].pc = "idle" THEN calls + 1 ELSE calls
    /\ UNCHANGED <<contract_file, threads, last>>

(* save_state: state = self.to_dict(), and the call of the storage; the   *)
(* saves started count as calls                                            *)
StartSave ==
    \E w \in Savers :
        /\ CanCall
        /\ savers[w].pc = "idle"
        /\ w = "on_write" => savers[w].started < mine_count
        /\ SaverStep(w, disk,
                     [ pc |-> "remove",
                       state |-> MockBlockchain_save_state(St),
                       fd |-> 0,
                       result |-> "none",
                       started |-> savers[w].started + 1 ])

(* if os.path.exists(temp_file): os.remove(temp_file) *)
SaverRemove ==
    \E w \in Savers :
        /\ savers[w].pc = "remove"
        /\ SaverStep(w, [ disk EXCEPT !.tmp = 0 ],
                     [ savers[w] EXCEPT !.pc = "open" ])

(* the file a name is created for: one that no name and no open file      *)
(* refers to any more, or else one more                                    *)
InUse(i) == InUseIn(disk, savers, i)

NewInode ==
    IF \E i \in 1..Len(disk.inodes) : ~InUse(i)
    THEN CHOOSE i \in 1..Len(disk.inodes) :
             ~InUse(i) /\ \A j \in 1..(i - 1) : InUse(j)
    ELSE Len(disk.inodes) + 1

(* open(temp_file, 'w'): the file of that name emptied, or a new one *)
SaverOpen ==
    \E w \in Savers :
        /\ savers[w].pc = "open"
        /\ IF disk.tmp # 0
           THEN SaverStep(w, [ disk EXCEPT !.inodes[disk.tmp] = Undecodable ],
                          [ savers[w] EXCEPT !.pc = "write",
                                             !.fd = disk.tmp ])
           ELSE SaverStep(w, [ disk EXCEPT
                                 !.inodes =
                                     IF NewInode > Len(disk.inodes)
                                     THEN Append(@, Undecodable)
                                     ELSE [ @ EXCEPT ![NewInode] =
                                                       Undecodable ],
                                 !.tmp = NewInode ],
                          [ savers[w] EXCEPT !.pc = "write",
                                             !.fd = NewInode ])

(* the bytes of a file after a writer that opened it empty has written    *)
(* new from its offset 0: when the other writer of the same file has put   *)
(* a longer text there in the meantime, the end of that text stays behind  *)
(* the new one and the file no longer decodes                              *)
Written(old, new) ==
    IF old = Undecodable \/ Len(new.blocks) >= Len(old.blocks)
    THEN new
    ELSE Undecodable

(* json.dump(serializable_state, f) and the close of the file *)
SaverWrite ==
    \E w \in Savers :
        /\ savers[w].pc = "write"
        /\ SaverStep(w, [ disk EXCEPT !.inodes[savers[w].fd] =
                                        Written(@, savers[w].state) ],
                     [ savers[w] EXCEPT !.pc = "replace" ])

(* os.replace(temp_file, self.blockchain_file); FileNotFoundError when the *)
(* temporary name is gone, caught like every exception of the save         *)
SaverReplace ==
    \E w \in Savers :
        /\ savers[w].pc = "replace"
        /\ IF disk.tmp = 0
           THEN SaverStep(w, disk, [ savers[w] EXCEPT !.pc = "idle",
                                                      !.result = "False" ])
           ELSE SaverStep(w, [ disk EXCEPT !.target = disk.tmp, !.tmp = 0 ],
                          [ savers[w] EXCEPT !.pc = "idle",
                                             !.result = "True" ])

(* an I/O or serialization error in the save: except Exception, the save   *)
(* returns False                                                           *)
SaverFail ==
    \E w \in Savers :
        /\ savers[w].pc \in { "remove", "open", "write", "replace" }
        /\ SaverStep(w, disk, [ savers[w] EXCEPT !.pc = "idle",
                                                 !.result = "False" ])

(* the process dies, its threads with it, and is started again *)
Crash ==
    /\ calls < MaxCalls
    /\ Commit(restart(St, load_blockchain_state(blockchain_file),
                      load_contract_state(contract_file)).s)
    /\ savers' = [ w \in Savers |->
                     [ IdleSaver EXCEPT !.started = savers[w].started ] ]
    /\ threads' = [ th \in Threads |-> IdleThread ]
    /\ calls' = calls + 1
    /\ last' = [ op |-> "restart", args |-> <<>>,
                 exc |-> restart(St, load_blockchain_state(blockchain_file),
                                 load_contract_state(contract_file)).exc ]
    /\ UNCHANGED files

NextSave ==
    \/ MineBlock
    \/ StartSave
    \/ SaverRemove
    \/ SaverOpen
    \/ SaverWrite
    \/ SaverReplace
    \/ SaverFail
    \/ Crash

SpecSave == Init /\ [][NextSave]_vars

-----------------------------------------------------------------------------
(* Several foreground threads on the one ledger.  mine_block takes no      *)
(* lock, so another thread can run between its statements: after it has    *)
(* read the last block, after its loop over the pending list, and after it *)
(* has appended its block.  A receipt is one dict shared by the pending    *)
(* transaction and by every block that holds the transaction.              *)

(* tx.receipt["block_number"] = n, seen wherever these transactions are *)
stamp_receipts(txs, hashes, n) ==
    [ i \in 1..Len(txs) |->
        IF txs[i].hash \in hashes
        THEN [ txs[i] EXCEPT !.receipt.block_number = n ]
        ELSE txs[i] ]

stamp_block(b, hashes, n) ==
    IF b = NoneDict
    THEN b
    ELSE [ b EXCEPT !.transactions = stamp_receipts(@, hashes, n) ]

SomeThreadIdle == \E th \in Threads : threads[th].pc = "idle"

(* last_block = self.chain[-1]; new_block = Block(...) *)
MineRead(th) ==
    /\ calls < MaxCalls
    /\ threads[th].pc = "idle"
    /\ LET last_block == chain[Len(chain)]
       IN threads' = [ threads EXCEPT ![th] =
                         [ pc |-> "loop",
                           last_block |-> last_block,
                           new_block |-> Block_init(last_block.block_number + 1,
                                                    last_block.hash, now) ] ]
    /\ calls' = calls + 1
    /\ UNCHANGED <<contractMaps, ledgerState, files, savers, now, last>>

(* for tx in self.pending_transactions: ... *)
MineLoop(th) ==
    /\ threads[th].pc = "loop"
    /\ LET r == mine_loop(pending_transactions, threads[th].new_block,
                          events, contract_events, contracts)
           n == threads[th].new_block.block_number
           hashes == { pending_transactions[i].hash :
                         i \in 1..Len(pending_transactions) }
       IN /\ threads' = [ o \in Threads |->
                            IF o = th
                            THEN [ threads[th] EXCEPT !.pc = "append",
                                                      !.new_block = r.block ]
                            ELSE [ threads[o] EXCEPT
                                     !.new_block = stamp_block(@, hashes, n) ] ]
          /\ events' = r.events
          /\ contract_events' = r.contract_events
          /\ pending_transactions' =
                stamp_receipts(pending_transactions, hashes, n)
          /\ chain' = [ i \in 1..Len(chain) |->
                          stamp_block(chain[i], hashes, n) ]
    /\ UNCHANGED <<contractMaps, accounts, nonces, contracts, tx_count,
                   mine_count, files, savers, now, calls, last>>

(* self.chain.append(new_block) *)
MineAppend(th) ==
    /\ threads[th].pc = "append"
    /\ chain' = Append(chain, threads[th].new_block)
    /\ mine_count' = mine_count + 1
    /\ threads' = [ threads EXCEPT ![th].pc = "clear" ]
    /\ UNCHANGED <<contractMaps, pending_transactions, accounts, nonces,
                   events, contract_events, contracts, tx_count, files,
                   savers, now, calls, last>>

(* self.pending_transactions = []; return new_block *)
MineClear(th) ==
    /\ threads[th].pc = "clear"
    /\ pending_transactions' = <<>>
    /\ threads' = [ threads EXCEPT ![th] = IdleThread ]
    /\ last' = [ op |-> "mineBlock", args |-> <<>>, exc |-> "None" ]
    /\ UNCHANGED <<contractMaps, chain, accounts, nonces, events,
                   contract_events, contracts, tx_count, mine_count, files,
                   savers, now, calls>>

(* create_transaction, called by a thread that is in no other call *)
ThreadCreateTransaction ==
    /\ SomeThreadIdle
    /\ CreateTransaction

NextThreads ==
    \/ ThreadCreateTransaction
    \/ \E th \in Threads : MineRead(th)
    \/ \E th \in Threads : MineLoop(th)
    \/ \E th \in Threads : MineAppend(th)
    \/ \E th \in Threads : MineClear(th)

SpecThreads == Init /\ [][NextThreads]_vars

-----------------------------------------------------------------------------
(* The contract's operations called by several foreground threads.  An     *)
(* operation calls mock_blockchain.mine_block() and then _emit_event,      *)
(* which reads mock_blockchain.chain[-1] again; no lock is held, so        *)
(* another thread can run between the two.  While a thread is between the  *)
(* two, its locals are the name and the args of the event and tx.hash.     *)

Front(seq) == SubSeq(seq, 1, Len(seq) - 1)

(* the operation up to the return of mine_block: r is what the whole       *)
(* operation leaves when nothing runs in between, and its last event is    *)
(* the one _emit_event is about to be called for                           *)
OpMined(th, op, r) ==
    /\ calls < MaxCalls
    /\ threads[th].pc = "idle"
    /\ calls' = calls + 1
    /\ UNCHANGED <<files, savers>>
    /\ IF r.exc # "None"
       THEN /\ Commit(r.s)
            /\ last' = [ op |-> op, args |-> <<>>, exc |-> r.exc ]
            /\ UNCHANGED threads
       ELSE LET ev == r.s.contract_events[Len(r.s.contract_events)]
            IN /\ Commit([ r.s EXCEPT !.contract_events = Front(@) ])
               /\ threads' = [ threads EXCEPT ![th] =
                                 [ pc |-> "emit",
                                   event_name |-> ev.name,
                                   args |-> ev.args,
                                   transaction_hash |-> ev.transaction_hash,
                                   op |-> op ] ]
               /\ UNCHANGED last

ThreadCreateIdentity(th) ==
    \E owner \in Owners :
        OpMined(th, "createIdentity",
                create_identity(St, owner, FUNDED_VERIFIER))

ThreadUpdateVerification(th) ==
    \E owner \in Owners, vt \in VerificationTypes :
        OpMined(th, "updateVerification",
                update_verification(St, owner, vt, 1, owner))

ThreadGrantAccess(th) ==
    \E p \in Pairs, e \in ExpiryChoices(now) :
        OpMined(th, "grantAccess",
                grant_access(St, p[1], p[2], e, <<"facial">>, p[1]))

ThreadRevokeAccess(th) ==
    \E p \in Pairs :
        OpMined(th, "revokeAccess", revoke_access(St, p[1], p[2], p[1]))

ThreadRecordZkpVerification(th) ==
    \E p \in Pairs :
        OpMined(th, "recordZkpVerification",
                record_zkp_verification(St, p[1], "0xabc", "facial", p[2]))

(* self._emit_event(name, args, tx.hash), and the return of the operation *)
ThreadEmitEvent(th) ==
    /\ threads[th].pc = "emit"
    /\ Commit(contract_emit_event(St, threads[th].event_name,
                                  threads[th].args,
                                  threads[th].transaction_hash))
    /\ threads' = [ threads EXCEPT ![th] = IdleThread ]
    /\ last' = [ op |-> threads[th].op, args |-> <<>>, exc |-> "None" ]
    /\ UNCHANGED <<files, savers, calls>>

NextEmit ==
    \/ \E th \in Threads : ThreadCreateIdentity(th)
    \/ \E th \in Threads : ThreadUpdateVerification(th)
    \/ \E th \in Threads : ThreadGrantAccess(th)
    \/ \E th \in Threads : ThreadRevokeAccess(th)
    \/ \E th \in Threads : ThreadRecordZkpVerification(th)
    \/ \E th \in Threads : ThreadEmitEvent(th)

SpecEmit == Init /\ [][NextEmit]_vars

-----------------------------------------------------------------------------
(* update_verification called by two foreground threads, once each.  The   *)
(* method tests 'owner_address not in self.identity_records' and then      *)
(* calls create_identity, which tests the map again; no lock is held, so   *)
(* the other thread can run between the test and the call.  While a        *)
(* thread is in the call its locals are the arguments, and when it has     *)
(* returned, the exception it raised ("None" if none).                     *)

AllIdle == \A th \in Threads : threads[th].pc = "idle"

(* the call begins: if owner_address not in self.identity_records *)
UpdateTestIdentity(th) ==
    /\ calls < MaxCalls
    /\ threads[th].pc = "idle"
    /\ \E owner \in Owners, vt \in VerificationTypes :
          threads' = [ threads EXCEPT ![th] =
                         [ pc |-> IF owner \notin DOMAIN identity_records
                                  THEN "create" ELSE "update",
                           owner_address |-> owner,
                           verification_type |-> vt,
                           status |-> th,
                           from_address |-> owner ] ]
    /\ calls' = calls + 1
    /\ UNCHANGED <<contractMaps, ledgerState, files, savers, now, last>>

(* self.create_identity(owner_address, from_address) *)
UpdateCreateIdentity(th) ==
    /\ threads[th].pc = "create"
    /\ LET r == create_identity(St, threads[th].owner_address,
                                threads[th].from_address)
       IN /\ Commit(r.s)
          /\ threads' = [ threads EXCEPT ![th] =
                            IF r.exc = "None"
                            THEN [ @ EXCEPT !.pc = "update" ]
                            ELSE [ @ EXCEPT !.pc = "returned" ]
                                   @@ [ exc |-> r.exc ] ]
          /\ last' = IF r.exc = "None"
                     THEN last
                     ELSE [ op |-> "updateVerification", args |-> <<>>,
                            exc |-> r.exc ]
    /\ UNCHANGED <<files, savers, calls>>

(* the rest of update_verification, the identity being there *)
UpdateStatus(th) ==
    /\ threads[th].pc = "update"
    /\ LET r == update_verification(St, threads[th].owner_address,
                                    threads[th].verification_type,
                                    threads[th].status,
                                    threads[th].from_address)
       IN /\ Commit(r.s)
          /\ threads' = [ threads EXCEPT ![th] =
                            [ @ EXCEPT !.pc = "returned" ]
                              @@ [ exc |-> r.exc ] ]
          /\ last' = [ op |-> "updateVerification", args |-> <<>>,
                       exc |-> r.exc ]
    /\ UNCHANGED <<files, savers, calls>>

(* a create_identity call made before the two threads start *)
CreateIdentityBefore ==
    /\ AllIdle
    /\ CreateIdentity

NextUpdate ==
    \/ CreateIdentityBefore
    \/ \E th \in Threads : UpdateTestIdentity(th)
    \/ \E th \in Threads : UpdateCreateIdentity(th)
    \/ \E th \in Threads : UpdateStatus(th)

SpecUpdate == Init /\ [][NextUpdate]_vars

-----------------------------------------------------------------------------
(* The process kept running with auto-save enabled.  Each of the ledger    *)
(* and the contract has a worker that calls save_state in a loop for ever  *)
(* ('while True: time.sleep(interval); self.save_state()'), next to the    *)
(* save threads mine_block starts.  The ledger's saves go through the      *)
(* steps above, where two of them meet on the temporary file; a save of    *)
(* the contract's worker is taken whole.                                   *)
(* No write fails and the process is not stopped.                          *)

(* a worker without the loop: it saves once and ends *)
AutoSaveStart_once ==
    /\ savers["timer"].pc = "idle"
    /\ savers["timer"].started = 0
    /\ savers' = [ savers EXCEPT !["timer"] =
                     [ pc |-> "remove",
                       state |-> MockBlockchain_save_state(St),
                       fd |-> 0,
                       result |-> "none",
                       started |-> 1 ] ]
    /\ UNCHANGED <<contractMaps, ledgerState, files, threads, now, calls,
                   last>>

(* the ledger's auto_save_worker: time.sleep(interval) is over and         *)
(* save_state takes its snapshot                                           *)
AutoSaveStart ==
    /\ savers["timer"].pc = "idle"
    /\ savers' = [ savers EXCEPT !["timer"] =
                     [ pc |-> "remove",
                       state |-> MockBlockchain_save_state(St),
                       fd |-> 0,
                       result |-> "none",
                       started |-> savers["timer"].started ] ]
    /\ UNCHANGED <<contractMaps, ledgerState, files, threads, now, calls,
                   last>>

(* the contract's auto_save_worker: time.sleep(interval) is over and       *)
(* save_state writes the maps to the contract's file                       *)
ContractAutoSave ==
    /\ contract_file' = Contract_save_state(St)
    /\ UNCHANGED <<contractMaps, ledgerState, blockchain_file, disk, savers,
                   threads, now, calls, last>>

(* the thread mine_block starts: Thread(target=self.save_state).start() *)
OnWriteSaveStart ==
    /\ savers["on_write"].pc = "idle"
    /\ savers["on_write"].started < mine_count - 1
    /\ savers' = [ savers EXCEPT !["on_write"] =
                     [ pc |-> "remove",
                       state |-> MockBlockchain_save_state(St),
                       fd |-> 0,
                       result |-> "none",
                       started |-> savers["on_write"].started + 1 ] ]
    /\ UNCHANGED <<contractMaps, ledgerState, files, threads, now, calls,
                   last>>

(* the operation that changes the state: update_verification by a funded   *)
(* owner, which writes the contract's maps and mines a block               *)
Change ==
    /\ calls < MaxChanges
    /\ \E st \in { (calls % 2) + 1 } :
          Do("updateVerification",
             [ owner_address |-> FUNDED_OWNER, verification_type |-> 0,
               status |-> st, from_address |-> FUNDED_OWNER ],
             update_verification(St, FUNDED_OWNER, 0, st, FUNDED_OWNER))

NextAutoSave ==
    \/ Change
    \/ OnWriteSaveStart
    \/ AutoSaveStart
    \/ SaverRemove
    \/ SaverOpen
    \/ SaverWrite
    \/ SaverReplace
    \/ ContractAutoSave

(* the save workers are scheduled again and again *)
FairSaves ==
    /\ WF_vars(AutoSaveStart)
    /\ WF_vars(SaverRemove)
    /\ WF_vars(SaverOpen)
    /\ WF_vars(SaverWrite)
    /\ WF_vars(SaverReplace)
    /\ WF_vars(ContractAutoSave)

SpecAutoSave == Init /\ [][NextAutoSave]_vars /\ FairSaves

-----------------------------------------------------------------------------
(* The read methods called between the writes.  A call is taken as the     *)
(* state the method leaves behind and the value it returns.                *)

Returns(s, v) == [ s |-> s, exc |-> "None", ret |-> v ]

(* the argument of get_block: the string 'latest', a block number or a     *)
(* block hash                                                              *)
StrId(x) == <<"str", x>>
IntId(n) == <<"int", n>>
HashId(h) == <<"hash", h>>

(* MockBlockchain.get_block; Block.to_dict gives the block's fields *)
get_block(s, block_identifier) ==
    LET byNumber == { i \in 1..Len(s.chain) :
                        /\ block_identifier[1] = "int"
                        /\ s.chain[i].block_number = block_identifier[2] }
        byHash == { i \in 1..Len(s.chain) :
                      /\ block_identifier[1] = "hash"
                      /\ s.chain[i].hash = block_identifier[2] }
        first(S) == CHOOSE i \in S : \A j \in S : i <= j
    IN IF block_identifier = StrId("latest")
       THEN s.chain[Len(s.chain)]
       ELSE IF byNumber # {}
       THEN s.chain[first(byNumber)]
       ELSE IF byHash # {}
       THEN s.chain[first(byHash)]
       ELSE NoneDict

(* variant: a grant found expired is marked revoked by the check *)
check_access_call_expiring(s, third_party_address, owner_address) ==
    IF /\ HasGrant(s, owner_address, third_party_address)
       /\ ~s.access_grants[owner_address][third_party_address].revoked
       /\ s.access_grants[owner_address][third_party_address].expiry_timestamp
             < s.now
    THEN Returns([ s EXCEPT
                     !.access_grants[owner_address][third_party_address].revoked
                         = TRUE ],
                 FALSE)
    ELSE Returns(s, check_access(s, third_party_address, owner_address))

check_access_call(s, third_party_address, owner_address) ==
    Returns(s, check_access(s, third_party_address, owner_address))

get_verification_status_call(s, owner_address, verification_type) ==
    Returns(s, get_verification_status(s, owner_address, verification_type))

get_past_events_call(s, event_name, from_block, to_block, filters) ==
    Returns(s, get_past_events(s, event_name, from_block, to_block, filters))

get_block_call(s, block_identifier) ==
    Returns(s, get_block(s, block_identifier))

get_transaction_receipt_call(s, tx_hash) ==
    Returns(s, get_transaction_receipt(s, tx_hash))

get_logs_call(s, from_block, to_block, address) ==
    Returns(s, get_logs(s, from_block, to_block, address))

(* one read: what the method left becomes the program's state, and the     *)
(* value it returned is kept with the call                                 *)
Read(op, args, r) ==
    /\ Commit(r.s)
    /\ UNCHANGED <<files, others, calls>>
    /\ last' = [ op |-> op, args |-> args, exc |-> r.exc, ret |-> r.ret ]

(* the queries of the reads *)
ReadEventNames == { "AccessGranted", "updateVerificationEvent" }
ReadFromBlocks == { 0, 2 }
BlockIds ==
    { StrId("latest"), IntId(0), IntId(1), IntId(9), StrId("0xnohash"),
      HashId(chain[Len(chain)].hash) }
TxHashes == { 1, 2, 9 }
LogAddressChoices == { NoneAddr, CONTRACT_ADDRESS }

CheckAccess ==
    \E p \in Pairs :
        Read("checkAccess",
             [ third_party_address |-> p[2], owner_address |-> p[1] ],
             check_access_call(St, p[2], p[1]))

GetVerificationStatus ==
    \E owner \in Owners, vt \in VerificationTypes :
        Read("getVerificationStatus",
             [ owner_address |-> owner, verification_type |-> vt ],
             get_verification_status_call(St, owner, vt))

GetPastEvents ==
    \E name \in ReadEventNames, from \in ReadFromBlocks :
        Read("getPastEvents",
             [ event_name |-> name, from_block |-> from ],
             get_past_events_call(St, name, from, NoneInt, EmptyDict))

GetBlock ==
    \E id \in BlockIds :
        Read("getBlock", [ block_identifier |-> id ],
             get_block_call(St, id))

GetTransactionReceipt ==
    \E h \in TxHashes :
        Read("getTransactionReceipt", [ tx_hash |-> h ],
             get_transaction_receipt_call(St, h))

GetLogs ==
    \E from \in ReadFromBlocks, address \in LogAddressChoices :
        Read("getLogs", [ from_block |-> from, address |-> address ],
             get_logs_call(St, from, NoneInt, address))

(* the writes between the reads: the funded owner sets a status, grants    *)
(* the funded verifier an hour of access, or takes it back                 *)
Write ==
    /\ CanCall
    /\ \/ Do("updateVerification",
             [ owner_address |-> FUNDED_OWNER, verification_type |-> 0,
               status |-> 1, from_address |-> FUNDED_OWNER ],
             update_verification(St, FUNDED_OWNER, 0, 1, FUNDED_OWNER))
       \/ Do("grantAccess",
             [ owner_address |-> FUNDED_OWNER,
               third_party_address |-> FUNDED_VERIFIER,
               expiry_timestamp |-> now + HOUR, data_types |-> <<"facial">>,
               from_address |-> FUNDED_OWNER ],
             grant_access(St, FUNDED_OWNER, FUNDED_VERIFIER, now + HOUR,
                          <<"facial">>, FUNDED_OWNER))
       \/ Do("revokeAccess",
             [ owner_address |-> FUNDED_OWNER,
               third_party_address |-> FUNDED_VERIFIER,
               from_address |-> FUNDED_OWNER ],
             revoke_access(St, FUNDED_OWNER, FUNDED_VERIFIER, FUNDED_OWNER))

NextRead ==
    \/ Write
    \/ Tick
    \/ CheckAccess
    \/ GetVerificationStatus
    \/ GetPastEvents
    \/ GetBlock
    \/ GetTransactionReceipt
    \/ GetLogs

SpecRead == Init /\ [][NextRead]_vars

-----------------------------------------------------------------------------
(* Properties *)

(* the step is a call of the method op *)
IsCall(op) == calls' = calls + 1 /\ last'.op = op

(* the grant record of (owner, third party), which must exist *)
Grant(owner_address, third_party_address) ==
    access_grants[owner_address][third_party_address]

(* C1: once revokeAccess(owner, tp, from = owner) has returned, and until  *)
(* the next call, checkAccess(tp, owner) is false whatever the expiry of   *)
(* the grant is.                                                           *)
C1_RevokeDeniesAccess ==
    (last.op = "revokeAccess" /\ last.exc = "None")
        => ~check_access(St, last.args.third_party_address,
                         last.args.owner_address)

(* a revokeAccess has returned for a grant whose expiry lies in the future *)
C1_Witness ==
    /\ last.op = "revokeAccess"
    /\ last.exc = "None"
    /\ last.args.from_address = last.args.owner_address
    /\ Grant(last.args.owner_address,
             last.args.third_party_address).expiry_timestamp > now

(* C2: after a call grantAccess(owner, tp, now + 3600, dataTypes,          *)
(* from = owner), and while the clock has not reached the expiry and no    *)
(* other call followed, checkAccess(tp, owner) is true.                    *)
C2_GrantGivesAccess ==
    ( /\ last.op = "grantAccess"
      /\ last.args.from_address = last.args.owner_address
      /\ now < last.args.expiry_timestamp )
        => check_access(St, last.args.third_party_address,
                        last.args.owner_address)

(* C3: a recordZkpVerification call made while checkAccess(verifier,       *)
(* owner) is false raises Unauthorized, appends no ZKP record and creates  *)
(* no transaction.                                                         *)
C3_ZkpNeedsAccess ==
    [][ ( /\ IsCall("recordZkpVerification")
          /\ ~check_access(St, last'.args.from_address,
                           last'.args.owner_address) )
          => /\ last'.exc = "Unauthorized"
             /\ zkp_verifications' = zkp_verifications
             /\ tx_count' = tx_count
             /\ pending_transactions' = pending_transactions
             /\ chain' = chain ]_vars

(* a verifier whose grant was revoked has been turned away *)
C3_Witness ==
    /\ last.op = "recordZkpVerification"
    /\ last.exc = "Unauthorized"
    /\ HasGrant(St, last.args.owner_address, last.args.from_address)
    /\ Grant(last.args.owner_address, last.args.from_address).revoked

(* C4: checkAccess(thirdParty, owner) is true exactly when a grant exists  *)
(* for the pair, it is not revoked and now < expiry_timestamp; it is false *)
(* when now equals expiry_timestamp.                                       *)
C4_CheckAccessReference ==
    \A owner \in Addr, tp \in Addr :
        check_access(St, tp, owner)
            = ( /\ HasGrant(St, owner, tp)
                /\ ~Grant(owner, tp).revoked
                /\ now < Grant(owner, tp).expiry_timestamp )

(* C5: a grant whose expiry_timestamp is less than the clock gives no      *)
(* access although it was not revoked, and the record holds no field that  *)
(* says so: expiry is not stored.                                          *)
C5_ExpiredDeniesAccess ==
    \A owner \in Addr, tp \in Addr :
        ( HasGrant(St, owner, tp) /\ Grant(owner, tp).expiry_timestamp < now )
            => /\ ~check_access(St, tp, owner)
               /\ DOMAIN Grant(owner, tp) \subseteq
                     { "expiry_timestamp", "data_types", "granted_at",
                       "revoked", "revoked_at" }

(* a grant that was never revoked has run out *)
C5_Witness ==
    \E owner \in Addr, tp \in Addr :
        /\ HasGrant(St, owner, tp)
        /\ Grant(owner, tp).expiry_timestamp < now
        /\ ~Grant(owner, tp).revoked
        /\ "revoked_at" \notin DOMAIN Grant(owner, tp)

(* C6: a grantAccess or revokeAccess call raises Unauthorized exactly when *)
(* from differs from owner.                                                *)
C6_OnlyOwnerGrantsAndRevokes ==
    [][ ( IsCall("grantAccess") \/ IsCall("revokeAccess") )
          => ( (last'.exc = "Unauthorized")
                  <=> (last'.args.from_address # last'.args.owner_address) )
      ]_vars

(* the third party of an existing grant tried to revoke it itself *)
C6_Witness ==
    /\ last.op = "revokeAccess"
    /\ last.args.from_address # last.args.owner_address
    /\ last.exc = "Unauthorized"
    /\ HasGrant(St, last.args.owner_address, last.args.third_party_address)

(* the grant of (owner, tp) exists and is revoked *)
Revoked(owner, tp) == HasGrant(St, owner, tp) /\ Grant(owner, tp).revoked

(* C7: revoked is terminal: once the record of (owner, tp) is revoked, it  *)
(* stays revoked under every operation and checkAccess(tp, owner) stays    *)
(* false.                                                                  *)
C7_RevokedIsTerminal ==
    [][ \A owner \in Addr, tp \in Addr :
           Revoked(owner, tp)
              => (Revoked(owner, tp)' /\ ~check_access(St, tp, owner)') ]_vars

(* the step is a grantAccess call of the owner for the pair (owner, tp) *)
IsRegrant(owner, tp) ==
    /\ IsCall("grantAccess")
    /\ last'.args.owner_address = owner
    /\ last'.args.third_party_address = tp
    /\ last'.args.from_address = owner

(* C7 as amended: a revoked record of (owner, tp) stays revoked, and       *)
(* checkAccess(tp, owner) false, under every step but a grantAccess call   *)
(* of the owner for the same pair.                                         *)
C7_RevokedUntilRegrant ==
    [][ \A owner \in Addr, tp \in Addr :
           ( Revoked(owner, tp) /\ ~IsRegrant(owner, tp) )
              => (Revoked(owner, tp)' /\ ~check_access(St, tp, owner)') ]_vars

(* an updateVerification call has returned for an owner one of whose     *)
(* grants is revoked                                                      *)
C7_Witness ==
    /\ last.op = "updateVerification"
    /\ last.exc = "None"
    /\ \E tp \in Addr : Revoked(last.args.owner_address, tp)

(* C8: the scenario with the addresses "alice" and "bob": once alice has   *)
(* an identity, grantAccess(alice, bob, now + 3600, [facial],              *)
(* from = alice) completes and checkAccess(bob, alice) is true; then       *)
(* revokeAccess(alice, bob, from = alice) completes and checkAccess(bob,   *)
(* alice) is false; then recordZkpVerification(alice, 0xabc, facial,       *)
(* from = bob) raises Unauthorized.                                        *)
C8_AliceBobScenario ==
    [][ /\ ( /\ IsCall("grantAccess")
             /\ "alice" \in DOMAIN identity_records
             /\ last'.args.owner_address = "alice"
             /\ last'.args.third_party_address = "bob"
             /\ last'.args.from_address = "alice"
             /\ last'.args.expiry_timestamp = now + HOUR )
              => (last'.exc = "None" /\ check_access(St, "bob", "alice")')
        /\ ( /\ IsCall("revokeAccess")
             /\ check_access(St, "bob", "alice")
             /\ last'.args.owner_address = "alice"
             /\ last'.args.third_party_address = "bob"
             /\ last'.args.from_address = "alice" )
              => (last'.exc = "None" /\ ~check_access(St, "bob", "alice")')
        /\ ( /\ IsCall("recordZkpVerification")
             /\ Revoked("alice", "bob")
             /\ last'.args.owner_address = "alice"
             /\ last'.args.from_address = "bob" )
              => last'.exc = "Unauthorized" ]_vars

(* C9: a call that raises DuplicateIdentity, Unauthorized or NotFound has  *)
(* changed nothing: the four contract maps, the chain, the pending queue,  *)
(* the nonces and the event logs are as before the call.                   *)
C9_RejectionIsAtomic ==
    [][ ( /\ calls' = calls + 1
          /\ last'.exc \in { "DuplicateIdentity", "Unauthorized", "NotFound" } )
          => UNCHANGED <<contractMaps, ledgerState>> ]_vars

(* revokeAccess found no grant for a pair whose owner has no grants at all *)
C9_Witness ==
    /\ last.op = "revokeAccess"
    /\ last.exc = "NotFound"
    /\ last.args.owner_address \notin DOMAIN access_grants
    /\ calls > 1

(* C10: createIdentity(owner, from) raises DuplicateIdentity exactly when  *)
(* owner has an identity record; a call that returns adds one record, for  *)
(* owner, and leaves the records of the other owners as they were.         *)
C10_CreateIdentity ==
    [][ IsCall("createIdentity")
          => LET owner == last'.args.owner_address
             IN /\ (last'.exc = "DuplicateIdentity")
                      <=> (owner \in DOMAIN identity_records)
                /\ (last'.exc = "None")
                      => /\ owner \notin DOMAIN identity_records
                         /\ DOMAIN identity_records'
                               = DOMAIN identity_records \cup {owner}
                         /\ \A o \in DOMAIN identity_records :
                               identity_records'[o] = identity_records[o] ]_vars

(* createIdentity was refused for an owner whose record was created by    *)
(* the grantAccess or updateVerification call made just before            *)
C10_Witness ==
    /\ last.op = "createIdentity"
    /\ last.exc = "DuplicateIdentity"
    /\ calls = 2
    /\ \/ last.args.owner_address \in DOMAIN access_grants
       \/ last.args.owner_address \in DOMAIN verification_records

-----------------------------------------------------------------------------
(* Properties of the ledger *)

IsPrefix(s1, s2) ==
    /\ Len(s1) <= Len(s2)
    /\ \A i \in 1..Len(s1) : s1[i] = s2[i]

(* the hash links of the chain, from the genesis block on *)
ChainLinked ==
    /\ Len(chain) = mine_count + 1
    /\ chain[1].block_number = 0
    /\ chain[1].previous_hash = ZERO_HASH
    /\ \A i \in 2..Len(chain) : chain[i].previous_hash = chain[i - 1].hash

(* C11: from a fresh ledger, after N calls of mine_block (whatever calls   *)
(* of create_transaction, deploy_contract and the contract's methods came  *)
(* in between) the chain has N+1 blocks, the first is the genesis block    *)
(* with the all-zero previous hash, every other block's previous_hash is   *)
(* the hash of the block before it, and a step only appends to the chain:  *)
(* the blocks already there stay as they were, in their order.             *)
C11_ChainLinkedAppendOnly ==
    []ChainLinked /\ [][IsPrefix(chain, chain')]_vars

(* three blocks mined on the fresh ledger, one of them by a direct call *)
C11_Witness ==
    /\ last.op = "mineBlock"
    /\ mine_count = 3
    /\ Len(chain) = 4
    /\ chain[4].previous_hash = chain[3].hash

(* the places (block, index) of the chain that hold a transaction *)
Places == { <<i, j>> \in (1..Len(chain)) \X (1..tx_count) :
              j <= Len(chain[i].transactions) }

TxAt(pl) == chain[pl[1]].transactions[pl[2]]

MinedOnce == \A p1, p2 \in Places : TxAt(p1).hash = TxAt(p2).hash => p1 = p2

(* the transaction as the block holds it: the receipt names the block *)
Mined(tx, block_number) == [ tx EXCEPT !.receipt.block_number = block_number ]

(* C12: whatever sequence of create_transaction, mine_block,               *)
(* deploy_contract and contract methods ran, no transaction hash is found  *)
(* at two places of the chain (two blocks, or twice in one block); when    *)
(* mine_block returns, the pending queue is empty and the block it         *)
(* appended holds the transactions that were pending, all of them and      *)
(* nothing else, in the order of their creation.                           *)
C12_MinedExactlyOnce ==
    /\ []MinedOnce
    /\ [][ /\ mine_count' > mine_count => pending_transactions' = <<>>
           /\ IsCall("mineBlock") =>
                 /\ Len(chain') = Len(chain) + 1
                 /\ chain'[Len(chain')].transactions =
                       [ i \in 1..Len(pending_transactions) |->
                           Mined(pending_transactions[i],
                                 chain'[Len(chain')].block_number) ] ]_vars

(* two transactions created, then mined together by a direct call *)
C12_Witness ==
    /\ last.op = "mineBlock"
    /\ pending_transactions = <<>>
    /\ Len(chain[Len(chain)].transactions) = 2
    /\ chain[Len(chain)].transactions[1].hash
         < chain[Len(chain)].transactions[2].hash

MinedHashes == { TxAt(pl).hash : pl \in Places }
PendingHashes == { pending_transactions[i].hash :
                     i \in 1..Len(pending_transactions) }
(* the hashes handed out so far, and one that was never handed out *)
SomeHashes == 1..(tx_count + 1)

(* C13: get_transaction_receipt(h) is None exactly when h is not the hash  *)
(* of a transaction held by some block of the chain: None for a hash that  *)
(* was never created and for a transaction still pending, and for a mined  *)
(* transaction the receipt of that transaction with the block that holds   *)
(* it.                                                                     *)
C13_ReceiptIffMined ==
    \A h \in SomeHashes :
        LET r == get_transaction_receipt(St, h)
        IN /\ (r = NoneDict) <=> (h \notin MinedHashes)
           /\ h \in PendingHashes => r = NoneDict
           /\ h > tx_count => r = NoneDict
           /\ h \in MinedHashes =>
                 /\ r.transaction_hash = h
                 /\ \E pl \in Places :
                       /\ TxAt(pl).hash = h
                       /\ r.block_number = chain[pl[1]].block_number
                       /\ r.block_hash = chain[pl[1]].hash

(* a mined transaction in a block that is not the latest, a pending one,   *)
(* and so the three kinds of hash at once                                  *)
C13_Witness ==
    /\ Len(chain) >= 3
    /\ Len(chain[2].transactions) = 1
    /\ get_transaction_receipt(St, chain[2].transactions[1].hash) # NoneDict
    /\ Len(pending_transactions) = 1
    /\ get_transaction_receipt(St, pending_transactions[1].hash) = NoneDict
    /\ get_transaction_receipt(St, tx_count + 1) = NoneDict

-----------------------------------------------------------------------------
(* Properties of the contract's maps *)

(* C15: identities are created lazily.  An update_verification or          *)
(* grant_access call that returned has left an identity record for the     *)
(* owner it named, also when there was none before the call; and in every  *)
(* reachable state every owner with an entry in verification_records or    *)
(* in access_grants has an entry in identity_records.                      *)
C15_LazyIdentity ==
    /\ [](\A o \in DOMAIN verification_records \cup DOMAIN access_grants :
            o \in DOMAIN identity_records)
    /\ [][ ( /\ IsCall("updateVerification") \/ IsCall("grantAccess")
             /\ last'.exc = "None" )
           => last'.args.owner_address \in DOMAIN identity_records' ]_vars

(* the first call made names an owner without identity, and returns *)
C15_Witness ==
    /\ calls = 1
    /\ last.op = "updateVerification"
    /\ last.exc = "None"
    /\ last.args.owner_address \in DOMAIN identity_records
    /\ last.args.owner_address \in DOMAIN verification_records
    /\ Len(chain) = 4

(* C16: update_verification is idempotent.  A call made with the           *)
(* arguments of the call before it leaves identity_records,                *)
(* verification_records, access_grants and zkp_verifications as the first  *)
(* call left them, and get_verification_status(owner, type) returns what   *)
(* it returned after the first call.                                       *)
C16_UpdateIdempotent ==
    [][ ( /\ IsCall("updateVerification")
          /\ last.op = "updateVerification"
          /\ last'.args = last.args )
        => /\ UNCHANGED contractMaps
           /\ get_verification_status(St, last.args.owner_address,
                                      last.args.verification_type)'
                = get_verification_status(St, last.args.owner_address,
                                          last.args.verification_type) ]_vars

(* the VerificationUpdated events of the contract for (owner, type): the   *)
(* calls of update_verification that returned, in the order they were made *)
Updates(o, vt) ==
    { k \in 1..Len(contract_events) :
        /\ contract_events[k].name = "VerificationUpdated"
        /\ contract_events[k].args.owner = o
        /\ contract_events[k].args.verificationType = vt }

LastUpdate(o, vt) == CHOOSE k \in Updates(o, vt) : \A j \in Updates(o, vt) : j <= k

(* C17: get_verification_status(owner, type) is 0 (Pending) when no        *)
(* update_verification call for (owner, type) has returned, also for an    *)
(* owner the contract does not know, and otherwise the status passed to    *)
(* the latest update_verification(owner, type, ...) call that returned; an *)
(* update does not change the status of any other (owner, type).           *)
C17_StatusOfLastUpdate ==
    /\ [](\A o \in Addr, vt \in VerificationTypes :
            get_verification_status(St, o, vt)
              = IF Updates(o, vt) = {}
                THEN 0
                ELSE contract_events[LastUpdate(o, vt)].args.status)
    /\ [][ IsCall("updateVerification") =>
             \A o \in Addr, vt \in VerificationTypes :
                 <<o, vt>> # <<last'.args.owner_address,
                              last'.args.verification_type>>
                 => get_verification_status(St, o, vt)'
                      = get_verification_status(St, o, vt) ]_vars

(* the (owner, third party) pairs that have a grant record *)
GrantKeys == { <<o, tp>> \in Addr \X Addr : HasGrant(St, o, tp) }

(* C18: a grant_access call by the owner for a pair that already has a     *)
(* grant replaces the record: afterwards the pair's record is the one of   *)
(* this call (its expiry_timestamp, its data_types and nothing of the      *)
(* earlier data_types, granted now, not revoked, no revoked_at left over), *)
(* the pair still has its one record, and the records of all other pairs   *)
(* are as they were.                                                       *)
C18_RegrantReplaces ==
    [][ ( /\ IsCall("grantAccess")
          /\ last'.args.from_address = last'.args.owner_address
          /\ HasGrant(St, last'.args.owner_address,
                      last'.args.third_party_address) )
        => LET o == last'.args.owner_address
               tp == last'.args.third_party_address
           IN /\ access_grants'[o][tp]
                   = [ expiry_timestamp |-> last'.args.expiry_timestamp,
                       data_types |-> last'.args.data_types,
                       granted_at |-> now,
                       revoked |-> FALSE ]
              /\ GrantKeys' = GrantKeys
              /\ \A q \in GrantKeys :
                    q # <<o, tp>> =>
                      access_grants'[q[1]][q[2]] = access_grants[q[1]][q[2]] ]_vars

(* a grant of other data types, then at a later time the grant in force *)
C18_Witness ==
    /\ last.op = "grantAccess"
    /\ last.exc = "None"
    /\ \E k \in 1..Len(contract_events) :
          /\ contract_events[k].name = "grantAccessEvent"
          /\ contract_events[k].args.thirdParty
               = last.args.third_party_address
          /\ contract_events[k].args.dataTypes # last.args.data_types
          /\ contract_events[k].args.expiryTimestamp
               # last.args.expiry_timestamp
    /\ Grant(last.args.owner_address, last.args.third_party_address)
         .data_types = last.args.data_types

(* C19: revoke_access only flips flags and nothing is deleted.  After a    *)
(* revoke_access(owner, tp) call that returned, the record of (owner, tp)  *)
(* is still there with the expiry_timestamp, data_types and granted_at it  *)
(* had, and only revoked = TRUE and revoked_at (the time of the call) are  *)
(* set; and no step of any operation removes an (owner, tp) key from       *)
(* access_grants.                                                          *)
C19_RevokeKeepsRecord ==
    [][ /\ GrantKeys \subseteq GrantKeys'
        /\ ( IsCall("revokeAccess") /\ last'.exc = "None" )
           => LET o == last'.args.owner_address
                  tp == last'.args.third_party_address
              IN /\ <<o, tp>> \in GrantKeys
                 /\ <<o, tp>> \in GrantKeys'
                 /\ DOMAIN access_grants'[o][tp]
                      = DOMAIN access_grants[o][tp]
                          \cup { "revoked", "revoked_at" }
                 /\ access_grants'[o][tp].expiry_timestamp
                      = access_grants[o][tp].expiry_timestamp
                 /\ access_grants'[o][tp].data_types
                      = access_grants[o][tp].data_types
                 /\ access_grants'[o][tp].granted_at
                      = access_grants[o][tp].granted_at
                 /\ access_grants'[o][tp].revoked = TRUE
                 /\ access_grants'[o][tp].revoked_at = now ]_vars

(* a grant revoked at a later time than it was made *)
C19_Witness ==
    /\ last.op = "revokeAccess"
    /\ last.exc = "None"
    /\ LET g == Grant(last.args.owner_address, last.args.third_party_address)
       IN /\ g.revoked
          /\ g.revoked_at > g.granted_at
          /\ g.expiry_timestamp = g.granted_at + HOUR
          /\ Len(g.data_types) = 1

-----------------------------------------------------------------------------
(* Properties of persistence *)

(* the state a fresh instance has loaded from the files a save of the      *)
(* present state writes                                                    *)
SavedAndLoaded ==
    Contract_load_state(
        MockBlockchain_load_state(MockBlockchain_init(now),
                                  MockBlockchain_save_state(St)),
        Contract_save_state(St))

(* C20: saving the ledger and the contract state and loading them into a   *)
(* fresh instance gives back what was saved: the length of the chain, the  *)
(* balances, the nonces, identity_records, verification_records,           *)
(* access_grants and zkp_verifications of the loaded instance equal those  *)
(* of the instance that saved, in every reachable state.                   *)
C20_SaveLoadRoundTrip ==
    /\ Len(SavedAndLoaded.chain) = Len(chain)
    /\ SavedAndLoaded.accounts = accounts
    /\ SavedAndLoaded.nonces = nonces
    /\ SavedAndLoaded.identity_records = identity_records
    /\ SavedAndLoaded.verification_records = verification_records
    /\ SavedAndLoaded.access_grants = access_grants
    /\ SavedAndLoaded.zkp_verifications = zkp_verifications

(* a file that holds a snapshot: it decodes, and to an object with the     *)
(* keys a save writes                                                      *)
HoldsLedgerSnapshot(file) ==
    /\ file \notin { NoneDict, Undecodable }
    /\ { "blocks", "accounts", "nonces" } \subseteq DOMAIN file

HoldsContractSnapshot(file) ==
    /\ file \notin { NoneDict, Undecodable }
    /\ { "identity_records", "verification_records", "access_grants",
         "zkp_verifications" } \subseteq DOMAIN file

(* C22: when a state file is absent or does not hold a well-formed         *)
(* snapshot, the process that starts on it does not raise and has the      *)
(* default state: for the ledger file, a chain that begins with the        *)
(* genesis block and holds nothing but the deployment the constructor      *)
(* makes, and the ten default accounts with their balance and nonce 0;     *)
(* for the contract file, empty identity_records, verification_records,    *)
(* access_grants and zkp_verifications.                                    *)
C22_LoadFallsBackToDefaults ==
    last.op = "restart" =>
      /\ ~HoldsLedgerSnapshot(blockchain_file) =>
            /\ last.exc = "None"
            /\ Len(chain) = 2
            /\ chain[1] = Block_init(0, ZERO_HASH, now)
            /\ Len(chain[2].transactions) = 1
            /\ chain[2].transactions[1].function_name = "constructor"
            /\ accounts = [ a \in DefaultAccounts |-> INITIAL_BALANCE ]
            /\ nonces = [ a \in DefaultAccounts |-> 0 ]
      /\ ~HoldsContractSnapshot(contract_file) =>
            /\ identity_records = EmptyDict
            /\ verification_records = EmptyDict
            /\ access_grants = EmptyDict
            /\ zkp_verifications = <<>>

(* C21: the persisted file is never torn.  At every moment, whatever the   *)
(* interleaving of the auto-save worker, the save started by mine_block    *)
(* and the foreground, and wherever the process died, blockchain_state.json *)
(* is absent or holds one complete snapshot written by a single save call. *)
C21_FileNeverTorn ==
    /\ blockchain_file # Undecodable
    /\ blockchain_file # NoneDict =>
          DOMAIN blockchain_file
            = { "metadata", "blocks", "accounts", "nonces", "contracts" }

(* C23: a save that fails, at whatever step and in whichever thread,       *)
(* returns False and touches nothing of the program: every step of a       *)
(* saver, the one in which it fails included, leaves the chain, the rest   *)
(* of the ledger and the contract's maps as they are and leaves the        *)
(* outcome of the foreground's call as it was, so the state in memory is   *)
(* the same whether the save succeeded or failed.                          *)
C23_FailedSaveIsHarmless ==
    [][ ( \E w \in Savers :
            /\ savers'[w] # savers[w]
            /\ savers'[w].pc # "idle" \/ savers'[w].result # "none" )
        => /\ UNCHANGED <<contractMaps, ledgerState, last>>
           /\ \A w \in Savers :
                 ( savers[w].pc # "idle" /\ savers'[w].pc = "idle" )
                 => savers'[w].result \in { "True", "False" } ]_vars

(* a block mined while the save started by the deployment was running,     *)
(* and that save then failed                                               *)
C23_Witness ==
    /\ last.op = "mineBlock"
    /\ last.exc = "None"
    /\ Len(chain) = 3
    /\ savers["on_write"].result = "False"
    /\ savers["on_write"].pc = "idle"
    /\ blockchain_file = NoneDict

-----------------------------------------------------------------------------
(* Properties of the event queries *)

(* the queries asked *)
EventNames == { "AccessGranted", "grantAccessEvent" }
FromBlocks == { 0, 3, 4 }
ToBlocks == { NoneInt, 3, 4 }
FilterChoices ==
    { EmptyDict,
      [ thirdParty |-> FUNDED_VERIFIER ],
      [ thirdParty |-> "bob" ],
      [ user |-> FUNDED_OWNER, thirdParty |-> FUNDED_VERIFIER ],
      [ unknown |-> "x" ] }

(* the positions of the contract's events that a query asks for *)
Asked(event_name, from_block, to_block, filters) ==
    { k \in 1..Len(contract_events) :
        /\ contract_events[k].name = event_name
        /\ from_block <= contract_events[k].block_number
        /\ to_block = NoneInt \/ contract_events[k].block_number <= to_block
        /\ \A key \in DOMAIN filters :
              /\ key \in DOMAIN contract_events[k].args
              /\ contract_events[k].args[key] = filters[key] }

(* r is the events at the positions P, in the order of the positions *)
IsSelection(r, P) ==
    /\ Len(r) = Cardinality(P)
    /\ \A a \in 1..Len(r) :
          \E k \in P : /\ Cardinality({ j \in P : j <= k }) = a
                       /\ r[a] = contract_events[k]

(* C24: get_past_events(name, from_block, to_block, filters) returns the   *)
(* contract's events, in the order they were emitted, that have this name, *)
(* a block_number in [from_block, to_block] with both ends included (no    *)
(* upper end when to_block is omitted) and, for every key of filters, that *)
(* key in args with an equal value: all of them and no other event.        *)
C24_PastEvents ==
    \A n \in EventNames, fb \in FromBlocks, tb \in ToBlocks,
       f \in FilterChoices :
        IsSelection(get_past_events(St, n, fb, tb, f), Asked(n, fb, tb, f))

(* two grants in two blocks: the upper end, the lower end and the filters  *)
(* each leave one of the two AccessGranted events out, or both             *)
C24_Witness ==
    /\ Len(get_past_events(St, "AccessGranted", 0, NoneInt, EmptyDict)) = 2
    /\ Len(get_past_events(St, "AccessGranted", 0, 3, EmptyDict)) = 1
    /\ Len(get_past_events(St, "AccessGranted", 4, 4, EmptyDict)) = 1
    /\ Len(get_past_events(St, "AccessGranted", 0, NoneInt,
                           [ thirdParty |-> FUNDED_VERIFIER ])) = 2
    /\ Len(get_past_events(St, "AccessGranted", 0, NoneInt,
                           [ thirdParty |-> "bob" ])) = 0
    /\ Len(get_past_events(St, "AccessGranted", 0, NoneInt,
                           [ unknown |-> "x" ])) = 0

-----------------------------------------------------------------------------
(* get_logs over the events of every contract *)

LogAddresses == { NoneAddr, CONTRACT_ADDRESS, "bob" }

(* the events the contracts recorded that a query asks for *)
Recorded(from_block, to_block, address) ==
    { contract_events[k] : k \in
        { j \in 1..Len(contract_events) :
            /\ from_block <= contract_events[j].block_number
            /\ contract_events[j].block_number <=
                  (IF to_block = NoneInt
                   THEN chain[Len(chain)].block_number ELSE to_block)
            /\ address = NoneAddr \/ contract_events[j].address = address } }

Range(seq) == { seq[i] : i \in 1..Len(seq) }

(* C25: get_logs(from_block, to_block, address) returns every event a      *)
(* contract recorded, the synthetic '<function>Event' events of mining and *)
(* the domain events of the contract's operations alike, whose             *)
(* block_number is in [from_block, to_block] (to_block the number of the   *)
(* last block when omitted) and whose address is the one given, if any.    *)
C25_LogsHoldEveryEvent ==
    chain # <<>> =>
        \A fb \in FromBlocks, tb \in ToBlocks, ad \in LogAddresses :
            Range(get_logs(St, fb, tb, ad)) = Recorded(fb, tb, ad)

-----------------------------------------------------------------------------
(* mine_block called by several threads *)

(* the transactions a thread has put in its block and not yet appended *)
InFlightHashes ==
    UNION { { threads[th].new_block.transactions[i].hash :
                i \in 1..Len(threads[th].new_block.transactions) } :
            th \in { o \in Threads : threads[o].pc = "append" } }

(* C26: whatever way the create_transaction and mine_block calls of the    *)
(* foreground threads interleave, every transaction that was created is    *)
(* still pending, or in the block a thread is about to append, or in a     *)
(* block of the chain (none is dropped), and no transaction is in two      *)
(* blocks.                                                                 *)
C26_MineBlockAtomic ==
    /\ \A h \in 1..tx_count :
          h \in PendingHashes \cup InFlightHashes \cup MinedHashes
    /\ \A p1, p2 \in Places :
          TxAt(p1).hash = TxAt(p2).hash => p1[1] = p2[1]

(* C27: whatever way the foreground calls that mine interleave, block i    *)
(* of the chain has the number i and, from the second block on, the hash   *)
(* of block i-1 as previous_hash, so no two blocks have the same number or *)
(* the same predecessor.                                                   *)
C27_SingleLine ==
    /\ \A i \in 1..Len(chain) : chain[i].block_number = i - 1
    /\ \A i \in 2..Len(chain) : chain[i].previous_hash = chain[i - 1].hash
    /\ \A i, j \in 1..Len(chain) :
          i # j => /\ chain[i].block_number # chain[j].block_number
                   /\ chain[i].previous_hash # chain[j].previous_hash

-----------------------------------------------------------------------------
(* A call the ledger refused *)

Refused == calls' = calls + 1 /\ last'.exc = "InsufficientBalance"

(* C28: a call of create_identity, update_verification, grant_access,      *)
(* revoke_access or record_zkp_verification that raised                    *)
(* InsufficientBalance (the sender's balance is below MIN_GAS) leaves the  *)
(* four maps of the contract as they were; a grant_access that raised does *)
(* not make check_access true for a pair for which it was false.           *)
C28_RefusedCallChangesNothing ==
    [][ Refused =>
          /\ UNCHANGED contractMaps
          /\ last'.op = "grantAccess" =>
                \A p \in Pairs :
                    check_access(St, p[2], p[1])' => check_access(St, p[2], p[1])
      ]_vars

-----------------------------------------------------------------------------
(* The events and the receipts of mining *)

(* what a step added at the end of a list *)
Gained(old, new) == SubSeq(new, Len(old) + 1, Len(new))

(* the event mine_block has the contract emit for a transaction *)
IsSyntheticOf(event, tx, block) ==
    /\ event.name = tx.function_name \o "Event"
    /\ event.args = tx.data
    /\ event.transaction_hash = tx.hash
    /\ event.block_number = block.block_number
    /\ event.address = tx.to

(* C29: when a block is mined, for every transaction of the block whose    *)
(* to address is a registered contract, the contract's events gain exactly *)
(* one event named <function_name>Event, with the transaction's data as    *)
(* args, the transaction's hash and the new block's number; for a          *)
(* transaction to any other address, the contract-creation transaction     *)
(* included, no event with its hash is gained.                             *)
C29_SyntheticEvents ==
    [][ mine_count' = mine_count + 1 =>
          LET block == chain'[Len(chain')]
              gained == Gained(contract_events, contract_events')
          IN \A j \in 1..Len(block.transactions) :
                LET tx == block.transactions[j]
                    of_tx == { k \in 1..Len(gained) :
                                 gained[k].transaction_hash = tx.hash }
                    named == { k \in of_tx :
                                 gained[k].name = tx.function_name \o "Event" }
                IN IF tx.to \in DOMAIN contracts'
                   THEN /\ Cardinality(named) = 1
                        /\ \A k \in named : IsSyntheticOf(gained[k], tx, block)
                   ELSE of_tx = {}
      ]_vars

(* the contract was deployed, by a transaction that left no event, and a   *)
(* direct call then mined a transaction to the contract: one event         *)
C29_Witness ==
    /\ last.op = "mineBlock"
    /\ CONTRACT_ADDRESS \in DOMAIN contracts
    /\ \E pl \in Places :
          /\ TxAt(pl).to = NoneAddr
          /\ \A k \in 1..Len(contract_events) :
                contract_events[k].transaction_hash # TxAt(pl).hash
    /\ Len(chain[Len(chain)].transactions) = 1
    /\ chain[Len(chain)].transactions[1].to = CONTRACT_ADDRESS
    /\ Len(contract_events) = 1
    /\ IsSyntheticOf(contract_events[1], chain[Len(chain)].transactions[1],
                     chain[Len(chain)])

(* C30: for every transaction held by a block, get_transaction_receipt     *)
(* returns a receipt whose block_number is the number of that block and    *)
(* whose status is 1 (success); the receipt of a transaction still pending *)
(* has no block_number.                                                    *)
C30_ReceiptNamesBlock ==
    /\ \A pl \in Places :
          LET r == get_transaction_receipt(St, TxAt(pl).hash)
          IN /\ r # NoneDict
             /\ r.block_number = chain[pl[1]].block_number
             /\ r.block_number # NoneInt
             /\ r.status = 1
    /\ \A i \in 1..Len(pending_transactions) :
          pending_transactions[i].receipt.block_number = NoneInt

(* transactions mined in two different blocks, and one still pending *)
C30_Witness ==
    /\ pending_transactions # <<>>
    /\ \E p1, p2 \in Places :
          /\ p1[1] # p2[1]
          /\ get_transaction_receipt(St, TxAt(p1).hash).block_number = p1[1] - 1
          /\ get_transaction_receipt(St, TxAt(p2).hash).block_number = p2[1] - 1

-----------------------------------------------------------------------------
(* The log index of the contract's events *)

(* C31: the k-th event the contract emitted, counting from 0, has          *)
(* log_index k, whether mine_block or one of the contract's operations     *)
(* emitted it; so the log_index values differ from one another and grow    *)
(* strictly in emission order.                                             *)
C31_LogIndexIsPosition ==
    /\ \A k \in 1..Len(contract_events) : contract_events[k].log_index = k - 1
    /\ \A j, k \in 1..Len(contract_events) :
          j < k => contract_events[j].log_index < contract_events[k].log_index

(* two operations of the contract: synthetic and domain events alternate *)
C31_Witness ==
    /\ Len(contract_events) = 4
    /\ contract_events[1].name = "createIdentityEvent"
    /\ contract_events[2].name = "IdentityCreated"
    /\ contract_events[4].log_index = 3
    /\ contract_events[3].block_number > contract_events[2].block_number

-----------------------------------------------------------------------------
(* The domain events of operations called by several threads *)

(* the function name of the transaction that belongs to a domain event *)
FunctionOfEvent ==
    [ IdentityCreated |-> "createIdentity",
      VerificationUpdated |-> "updateVerification",
      AccessGranted |-> "grantAccess",
      AccessRevoked |-> "revokeAccess",
      ZKProofVerified |-> "recordZKProofVerification" ]

(* C32: whatever way the operations of the foreground threads interleave,  *)
(* every domain event (IdentityCreated, VerificationUpdated,               *)
(* AccessGranted, AccessRevoked, ZKProofVerified) carries the hash of the  *)
(* transaction of the operation that emitted it and, as block_number, the  *)
(* number of the block that holds this transaction.                        *)
C32_DomainEventNamesItsBlock ==
    \A k \in 1..Len(contract_events) :
        LET ev == contract_events[k]
        IN ev.name \in DOMAIN FunctionOfEvent =>
              \E pl \in Places :
                  /\ TxAt(pl).hash = ev.transaction_hash
                  /\ TxAt(pl).function_name = FunctionOfEvent[ev.name]
                  /\ chain[pl[1]].block_number = ev.block_number

-----------------------------------------------------------------------------
(* The list of ZKP verification records *)

(* the record is the one the call described by c asks for *)
IsRecordOf(rec, c) ==
    /\ rec.user = c.args.owner_address
    /\ rec.verifier = c.args.from_address
    /\ rec.proof_hash = c.args.proof_hash
    /\ rec.data_type = c.args.data_type

(* C33: no step removes or rewrites a record of zkp_verifications; a       *)
(* record_zkp_verification call that returned appended exactly one record, *)
(* with user = owner, verifier = from, the proof hash and the data type of *)
(* the call; and whenever a record is appended, it is by such a call made  *)
(* while check_access(verifier, user) was true.                            *)
C33_ZkpAppendOnly ==
    [][ /\ IsPrefix(zkp_verifications, zkp_verifications')
        /\ ( IsCall("recordZkpVerification") /\ last'.exc = "None" )
              => /\ Len(zkp_verifications') = Len(zkp_verifications) + 1
                 /\ IsRecordOf(zkp_verifications'[Len(zkp_verifications')],
                               last')
        /\ zkp_verifications' # zkp_verifications
              => /\ IsCall("recordZkpVerification")
                 /\ Len(zkp_verifications') = Len(zkp_verifications) + 1
                 /\ IsRecordOf(zkp_verifications'[Len(zkp_verifications')],
                               last')
                 /\ check_access(St, last'.args.from_address,
                                 last'.args.owner_address)
      ]_vars

(* a grant, then two proofs recorded by the verifier, for two data types *)
C33_Witness ==
    /\ last.op = "recordZkpVerification"
    /\ last.exc = "None"
    /\ Len(zkp_verifications) = 2
    /\ zkp_verifications[1].data_type # zkp_verifications[2].data_type
    /\ IsRecordOf(zkp_verifications[2], last)

(* C34: a record_zkp_verification(owner, proof_hash, data_type, from =      *)
(* verifier) call returns only if data_type is one of the data_types of    *)
(* the grant the verifier holds from the owner at the time of the call.    *)
C34_ZkpWithinGrantedTypes ==
    [][ ( IsCall("recordZkpVerification") /\ last'.exc = "None" )
          => /\ HasGrant(St, last'.args.owner_address, last'.args.from_address)
             /\ last'.args.data_type \in
                   Range(Grant(last'.args.owner_address,
                               last'.args.from_address).data_types)
      ]_vars

-----------------------------------------------------------------------------
(* The verification status across a restart *)

AllVerificationTypes == 0..2

(* C35: for every owner and every verification type 0, 1 and 2, the        *)
(* instance that has loaded the saved contract state returns from          *)
(* get_verification_status(owner, type) the status the saving instance     *)
(* returned before the save.                                               *)
C35_StatusSurvivesRestart ==
    \A owner \in Addr, vt \in AllVerificationTypes :
        get_verification_status(SavedAndLoaded, owner, vt)
            = get_verification_status(St, owner, vt)

-----------------------------------------------------------------------------
(* The genesis block *)

(* C36: in every reachable state, the state right after a start on any     *)
(* file the loader accepts included, the chain is not empty and its first  *)
(* block is the genesis block: number 0, previous_hash of 64 zeros; so     *)
(* chain[-1] in mine_block and get_block('latest') finds a block.          *)
C36_ChainNeverEmpty ==
    /\ chain # <<>>
    /\ chain[1].block_number = 0
    /\ chain[1].previous_hash = ZERO_HASH

-----------------------------------------------------------------------------
(* update_verification by two threads *)

(* both threads have returned from a call for the same owner and type *)
BothReturnedSameKey ==
    /\ \A th \in Threads : threads[th].pc = "returned"
    /\ threads[1].owner_address = threads[2].owner_address
    /\ threads[1].verification_type = threads[2].verification_type

(* C37: when two threads have called update_verification for the same      *)
(* owner and type at the same time, whether the owner had an identity      *)
(* record or not, both calls have returned without an exception and the    *)
(* status stored is the status of one of the two calls.                    *)
C37_ConcurrentUpdatesBothComplete ==
    BothReturnedSameKey =>
        /\ \A th \in Threads : threads[th].exc = "None"
        /\ get_verification_status(St, threads[1].owner_address,
                                   threads[1].verification_type)
              \in { threads[1].status, threads[2].status }

-----------------------------------------------------------------------------
(* The saved ledger over time *)

(* C38: whatever way the saves of the auto-save worker and of the threads  *)
(* mine_block starts interleave, a completed write never replaces the      *)
(* snapshot in blockchain_state.json by one with fewer blocks.             *)
C38_SnapshotNeverGoesBack ==
    [][ ( /\ HoldsLedgerSnapshot(blockchain_file)
          /\ HoldsLedgerSnapshot(blockchain_file') )
          => Len(blockchain_file'.blocks) >= Len(blockchain_file.blocks)
      ]_vars

-----------------------------------------------------------------------------
(* What the files hold in the end *)

LedgerFileHolds ==
    /\ HoldsLedgerSnapshot(blockchain_file)
    /\ blockchain_file.blocks = to_dict(St).blocks
    /\ blockchain_file.accounts = accounts
    /\ blockchain_file.nonces = nonces

ContractFileHolds ==
    /\ HoldsContractSnapshot(contract_file)
    /\ contract_file.identity_records = Contract_save_state(St).identity_records
    /\ contract_file.verification_records
          = Contract_save_state(St).verification_records
    /\ contract_file.access_grants = Contract_save_state(St).access_grants
    /\ contract_file.zkp_verifications = Contract_save_state(St).zkp_verifications

(* C39: with auto-save enabled and the process kept running, when the save *)
(* workers are scheduled fairly, from some moment after the last mutating  *)
(* operation on blockchain_state.json holds the chain, the balances and    *)
(* the nonces in memory and identity_contract_state.json holds the four    *)
(* maps of the contract, for ever.                                         *)
C39_EventuallyPersisted ==
    <>[](LedgerFileHolds /\ ContractFileHolds)

(* all the calls made, blocks mined and a map of the contract written, and *)
(* both files hold the state in memory                                     *)
C39_Witness ==
    /\ calls = MaxChanges
    /\ mine_count > 1
    /\ identity_records # EmptyDict
    /\ LedgerFileHolds
    /\ ContractFileHolds

-----------------------------------------------------------------------------
(* The reads *)

ReadOps ==
    { "checkAccess", "getVerificationStatus", "getPastEvents", "getBlock",
      "getTransactionReceipt", "getLogs" }

(* the step is a read: neither a counted call nor the clock *)
IsRead == last'.op \in ReadOps /\ calls' = calls /\ now' = now

(* C40: a call of checkAccess, getVerificationStatus, getPastEvents,       *)
(* getBlock, getTransactionReceipt or getLogs creates no transaction,      *)
(* mines no block and leaves the chain, the pending queue, the nonces, the *)
(* four maps of the contract and the event lists of the ledger and of the  *)
(* contract as they were.                                                  *)
C40_ReadsArePure ==
    [][ IsRead =>
          /\ tx_count' = tx_count
          /\ mine_count' = mine_count
          /\ chain' = chain
          /\ pending_transactions' = pending_transactions
          /\ nonces' = nonces
          /\ identity_records' = identity_records
          /\ verification_records' = verification_records
          /\ access_grants' = access_grants
          /\ zkp_verifications' = zkp_verifications
          /\ events' = events
          /\ contract_events' = contract_events
      ]_vars

(* checkAccess has answered False for a grant that is not revoked and has  *)
(* expired, after blocks were mined and events logged                      *)
C40_Witness ==
    /\ last.op = "checkAccess"
    /\ last.ret = FALSE
    /\ HasGrant(St, last.args.owner_address, last.args.third_party_address)
    /\ ~access_grants[last.args.owner_address][last.args.third_party_address].revoked
    /\ Len(chain) > 1
    /\ events # <<>>

====
